---- MODULE Spec2Model ----
(***************************************************************************)
(* Model of moneyman's transaction ingestion and storage fan-out:          *)
(* saveResults and resultsToTransactions of src/bot/storage/index.ts (the  *)
(* revision that takes `config`, kept in src/unnamed/part_003), together   *)
(* with InvoiceCreator.createInvoicesForTransactions.                      *)
(*                                                                         *)
(* One action is one run of JavaScript between two awaits: the event loop  *)
(* runs a continuation to its next await before it runs anything else.     *)
(***************************************************************************)
EXTENDS Integers, Sequences, FiniteSets, TLC

\* ------------------------------------------------------------------ bounds
MaxResults == 2     \* scrape results handed to saveResults
MaxAccounts == 1    \* account batches of one scrape result
MaxTxns == 1        \* raw transactions of one account batch
MaxSteps == 2       \* onProgress calls of one saveTransactions call

\* ------------------------------------------------------------- the inputs
\* The registry of storage backends, in registration order.
AllStorages == <<"LocalJsonStorage", "GoogleSheetsStorage">>

StorageNames == {AllStorages[i] : i \in 1..Len(AllStorages)}

StepNames == {"fetch", "write"}

NoDate == 0
NoLink == 0

\* Raw scraped transactions: one well-formed ordinary expense, one
\* well-formed positive insurance-vendor payment, one without a date.
RawTxns ==
  { [date |-> 1,      description |-> "plain",  originalAmount |-> -1],
    [date |-> 1,      description |-> "vendor", originalAmount |-> 1],
    [date |-> NoDate, description |-> "plain",  originalAmount |-> -1] }

CompanyIds == {"hapoalim"}
AccountNumbers == {"acc1"}

SeqsUpTo(S, n) == UNION {[1..k -> S] : k \in 0..n}

RawAccounts == [accountNumber : AccountNumbers, txns : SeqsUpTo(RawTxns, MaxTxns)]

AccountScrapeResults ==
  [companyId : CompanyIds, success : BOOLEAN, accounts : SeqsUpTo(RawAccounts, MaxAccounts)]

\* ------------------------------------------------------------------ state
VARIABLES
  canSave,          \* canSave[s]: the configuration enables storage s
  invoiceConfig,    \* config.storage.invoice is present
  results,          \* the argument of saveResults
  mainPc,           \* where saveResults stands
  allTransactions,  \* the array built by resultsToTransactions (shared)
  normalized,       \* history: allTransactions as normalization returned it
  derivations,      \* history: number of transactionHash calls made
  invoiceQueue,     \* indexes into allTransactions of the rows to invoice
  invoiceIdx,       \* position of createInvoicesForTransactions in its loop
  invoiceRequests,  \* history: number of createDoc requests issued
  sent,             \* texts passed to send(), in call order
  messages,         \* messages[h]: current text of the message with handle h
  errors,           \* context labels passed to sendError(), in call order
  taskPc,           \* taskPc[s]: where the parallel task of storage s stands
  message,          \* message[s]: the handle send() returned to the task
  steps,            \* steps[s]: the task's array of Timers
  saveCalls,        \* history: saveCalls[s] = arrays passed to saveTransactions
  saveOutcome,      \* saveOutcome[s]: how saveTransactions settled
  stats,            \* stats[s]: the SaveStats saveTransactions resolved with
  taskResult,       \* taskResult[s]: how the task's promise settled
  progressCalls,    \* history: step names storage s passed to onProgress
  editTargets,      \* history: editTargets[s] = handles the edits of task s named
  notifierFailed,   \* history: the notifier call of task s that rejected
  mutations,        \* history: row changes made by backends, [by, index]
  invoiceLog,       \* history: the settled invoice requests, [index, res], in order
  reportsSettled,   \* the backends whose sendError call from the catch block has settled
  insTransactions,  \* the transactions given to calculateMonthlyInsights
  insights,         \* the MonthlyInsights it returned
  insPc,            \* how far the insights computation has come
  insOptions,       \* the options given to formatInsightsMessage
  insMessage,       \* the lines of the message it returned
  insConfig,        \* the configuration sendMonthlyInsights reads
  insSent,          \* history: the messages sendMonthlyInsights passed to send()
  insReports,       \* history: the context labels it passed to sendError()
  insOutcome,       \* how the promise of sendMonthlyInsights settled
  insFailed,        \* history: the awaited call of its try block that rejected
  hashType,         \* config.options.scraping.transactionHashType
  sheetTxns,        \* the txns argument of GoogleSheetsStorage.saveTransactions
  worksheet,        \* the worksheet: "ok", "missing" or "noHashColumn"
  hashColumn,       \* the keys the hash column of the worksheet holds
  sheetPc,          \* where saveTransactions stands
  sheetIo,          \* sheetIo[r]: the state of the request r it awaits
  progressLog,      \* history: the onProgress calls of this save
  existingHashes,   \* the set loadHashes returned before the filter
  newTxns,          \* the transactions the filter kept
  sheetStats,       \* the SaveStats of this save
  rowsWritten,      \* history: the transactions whose rows this save appended
  sheetOutcome,     \* how the promise of saveTransactions settled
  sheetReports,     \* history: the unawaited notifier calls of this save
  sheetCall,        \* the number of the saveTransactions call
  firstCall         \* history: what the first call loaded, wrote and returned

vars == <<canSave, invoiceConfig, results, mainPc, allTransactions, normalized,
          derivations, invoiceQueue, invoiceIdx, invoiceRequests, sent,
          messages, errors, taskPc, message, steps, saveCalls, saveOutcome,
          stats, taskResult, progressCalls, editTargets, notifierFailed,
          mutations, reportsSettled, invoiceLog, insTransactions, insights, insPc,
          insOptions, insMessage, insConfig, insSent, insReports, insOutcome,
          insFailed,
          hashType, sheetTxns, worksheet, hashColumn, sheetPc, sheetIo,
          progressLog, existingHashes, newTxns, sheetStats, rowsWritten,
          sheetOutcome, sheetReports, sheetCall, firstCall>>

\* the variables the fan-out of a reliable run leaves alone
faultVars == <<notifierFailed, mutations, reportsSettled, invoiceLog>>

\* the variables of the monthly insights
insightVars == <<insTransactions, insights, insPc, insOptions, insMessage>>

\* the variables of sendMonthlyInsights around the computation
monthlyVars == <<insConfig, insSent, insReports, insOutcome, insFailed>>

\* the variables of GoogleSheetsStorage.saveTransactions
sheetVars == <<hashType, sheetTxns, worksheet, hashColumn, sheetPc, sheetIo,
               progressLog, existingHashes, newTxns, sheetStats, rowsWritten,
               sheetOutcome, sheetReports, sheetCall, firstCall>>

\* ---------------------------------------------------------------- helpers
storages_Unfiltered == AllStorages

\* [...].filter((s) => s.canSave())
storages == SelectSeq(AllStorages, LAMBDA s : canSave[s])

Active == {storages[i] : i \in 1..Len(storages)}

\* ------------------------------------------------- the hash / id deriver
\* Derivation throws when the date is absent.
Malformed(tx) == tx.date = NoDate

transactionHash(tx, companyId, accountNumber) ==
  <<tx.date, tx.originalAmount, tx.description, companyId, accountNumber>>

transactionUniqueId(tx, companyId, accountNumber) ==
  <<"id", tx.date, companyId, accountNumber, tx.originalAmount, tx.description>>

\* ---------------------------------------------------------- normalization
\* The body of the innermost loop: the row pushed, or the caught error.
RowOf(tx, companyId, accountNumber) ==
  [date |-> tx.date, description |-> tx.description,
   originalAmount |-> tx.originalAmount,
   account |-> accountNumber, companyId |-> companyId,
   hash |-> transactionHash(tx, companyId, accountNumber),
   uniqueId |-> transactionUniqueId(tx, companyId, accountNumber),
   pdf_link |-> NoLink, doc_number |-> NoLink]

TxnErrorLabel(tx, companyId, accountNumber) ==
  <<"Failed to process transaction", companyId, accountNumber, tx>>

ProcessTxn_Silent(tx, companyId, accountNumber) ==
  IF Malformed(tx)
    THEN [rows |-> <<>>, errs |-> <<>>, calls |-> 1]
    ELSE [rows |-> <<RowOf(tx, companyId, accountNumber)>>, errs |-> <<>>,
          calls |-> 1]

\* What one raw transaction contributes: the row pushed, or the error the
\* catch block reports; calls counts the transactionHash calls.
ProcessTxn(tx, companyId, accountNumber) ==
  IF Malformed(tx)
    THEN [rows |-> <<>>,
          errs |-> <<TxnErrorLabel(tx, companyId, accountNumber)>>,
          calls |-> 1]
    ELSE [rows |-> <<RowOf(tx, companyId, accountNumber)>>, errs |-> <<>>,
          calls |-> 1]

RECURSIVE ProcessTxns(_, _, _)
ProcessTxns(txs, companyId, accountNumber) ==
  IF txs = <<>> THEN [rows |-> <<>>, errs |-> <<>>, calls |-> 0]
  ELSE LET h == ProcessTxn(Head(txs), companyId, accountNumber)
           t == ProcessTxns(Tail(txs), companyId, accountNumber)
       IN [rows |-> h.rows \o t.rows, errs |-> h.errs \o t.errs,
           calls |-> h.calls + t.calls]

RECURSIVE ProcessAccounts_Prepends(_, _)
ProcessAccounts_Prepends(accounts, companyId) ==
  IF accounts = <<>> THEN [rows |-> <<>>, errs |-> <<>>, calls |-> 0]
  ELSE LET h == ProcessTxns(Head(accounts).txns, companyId,
                            Head(accounts).accountNumber)
           t == ProcessAccounts_Prepends(Tail(accounts), companyId)
       IN [rows |-> t.rows \o h.rows, errs |-> h.errs \o t.errs,
           calls |-> h.calls + t.calls]

RECURSIVE ProcessAccounts(_, _)
ProcessAccounts(accounts, companyId) ==
  IF accounts = <<>> THEN [rows |-> <<>>, errs |-> <<>>, calls |-> 0]
  ELSE LET h == ProcessTxns(Head(accounts).txns, companyId,
                            Head(accounts).accountNumber)
           t == ProcessAccounts(Tail(accounts), companyId)
       IN [rows |-> h.rows \o t.rows, errs |-> h.errs \o t.errs,
           calls |-> h.calls + t.calls]

RECURSIVE resultsToTransactions_BatchKeys(_)
resultsToTransactions_BatchKeys(rs) ==
  IF rs = <<>> THEN [rows |-> <<>>, errs |-> <<>>, calls |-> 0]
  ELSE LET h == IF Head(rs).success
                  THEN ProcessAccounts(Head(rs).accounts, Head(rs).companyId)
                  ELSE [rows |-> <<>>, errs |-> <<>>, calls |-> 0]
           t == resultsToTransactions_BatchKeys(Tail(rs))
       IN [rows |-> [i \in 1..Len(h.rows) |->
                       [h.rows[i] EXCEPT !.hash = Append(@, Len(rs)),
                                         !.uniqueId = Append(@, Len(rs))]]
                    \o t.rows,
           errs |-> h.errs \o t.errs,
           calls |-> h.calls + t.calls]

RECURSIVE resultsToTransactions_IgnoreSuccess(_)
resultsToTransactions_IgnoreSuccess(rs) ==
  IF rs = <<>> THEN [rows |-> <<>>, errs |-> <<>>, calls |-> 0]
  ELSE LET h == ProcessAccounts(Head(rs).accounts, Head(rs).companyId)
           t == resultsToTransactions_IgnoreSuccess(Tail(rs))
       IN [rows |-> h.rows \o t.rows, errs |-> h.errs \o t.errs,
           calls |-> h.calls + t.calls]

RECURSIVE resultsToTransactions(_)
resultsToTransactions(rs) ==
  IF rs = <<>> THEN [rows |-> <<>>, errs |-> <<>>, calls |-> 0]
  ELSE LET h == IF Head(rs).success
                  THEN ProcessAccounts(Head(rs).accounts, Head(rs).companyId)
                  ELSE [rows |-> <<>>, errs |-> <<>>, calls |-> 0]
           t == resultsToTransactions(Tail(rs))
       IN [rows |-> h.rows \o t.rows, errs |-> h.errs \o t.errs,
           calls |-> h.calls + t.calls]

\* ------------------------------------------------------- invoice creation
VendorNames == {"vendor"}

\* The rows filterInsuranceVendorTransactions keeps; they are the objects
\* of the array it is given, so the model names them by their indexes.
filterInsuranceVendorTransactions(transactions) ==
  SelectSeq([i \in 1..Len(transactions) |-> i],
            LAMBDA i : /\ transactions[i].originalAmount > 0
                       /\ transactions[i].description \in VendorNames)

\* What createDoc may answer: a failed request, a document with its links,
\* a document without them.
InvoiceResponses == {"failed", "links", "nolinks"}

ApplyInvoiceResponse_Overwrites(txn, res) ==
  IF res = "links"
    THEN [txn EXCEPT !.pdf_link = 1, !.doc_number = 1, !.uniqueId = <<"doc", 1>>]
    ELSE txn

\* createInvoicesForTransactions, one loop iteration after the response.
ApplyInvoiceResponse(txn, res) ==
  IF res = "links" THEN [txn EXCEPT !.pdf_link = 1, !.doc_number = 1] ELSE txn

\* ------------------------------------------------------------ notification
Text(t) == [kind |-> "text", text |-> t]

saving(name, timers) == [kind |-> "saving", name |-> name, steps |-> timers]

statsString(st, timers) == [kind |-> "stats", stats |-> st, steps |-> timers]

SaveErrorLabel(name) == <<"saveTransactions", name>>

\* ----------------------------------------------------------------- timers
Timer(name) == [name |-> name, ended |-> FALSE]

\* steps.at(-1)?.end()
EndLast(timers) ==
  IF timers = <<>> THEN timers
  ELSE [timers EXCEPT ![Len(timers)].ended = TRUE]

\* stats before saveTransactions has resolved
NoStats == [name |-> "", added |-> 0, existing |-> 0]

\* ------------------------------------------------------------------- Init
\* the state before saveResults is called
Fresh ==
  /\ mainPc = "start"
  /\ allTransactions = <<>>
  /\ normalized = <<>>
  /\ derivations = 0
  /\ invoiceQueue = <<>>
  /\ invoiceIdx = 0
  /\ invoiceRequests = 0
  /\ sent = <<>>
  /\ messages = <<>>
  /\ errors = <<>>
  /\ taskPc = [s \in StorageNames |-> "idle"]
  /\ message = [s \in StorageNames |-> 0]
  /\ steps = [s \in StorageNames |-> <<>>]
  /\ saveCalls = [s \in StorageNames |-> <<>>]
  /\ saveOutcome = [s \in StorageNames |-> "none"]
  /\ stats = [s \in StorageNames |-> NoStats]
  /\ taskResult = [s \in StorageNames |-> "pending"]
  /\ progressCalls = [s \in StorageNames |-> <<>>]
  /\ editTargets = [s \in StorageNames |-> {}]
  /\ notifierFailed = [s \in StorageNames |-> "none"]
  /\ mutations = {}
  /\ reportsSettled = {}
  /\ invoiceLog = <<>>

\* no insights computed
NoInsights ==
  [totalExpenses |-> 0, totalIncome |-> 0, balance |-> 0,
   transactionCount |-> 0, categoryBreakdown |-> <<>>]

\* formatInsightsMessage called without options
NoOptions ==
  [given |-> FALSE, showCategories |-> TRUE, showDailyAverage |-> TRUE,
   maxGiven |-> FALSE, maxCategories |-> 0]

InsightsIdle ==
  /\ insTransactions = <<>>
  /\ insights = NoInsights
  /\ insPc = "idle"
  /\ insOptions = NoOptions
  /\ insMessage = <<>>

\* sendMonthlyInsights not called
MonthlyIdle ==
  /\ insConfig = [enabled |-> FALSE, googleSheets |-> FALSE]
  /\ insSent = <<>>
  /\ insReports = <<>>
  /\ insOutcome = "none"
  /\ insFailed = "none"

\* the requests saveTransactions awaits: the notifier's onProgress, getDoc,
\* sheet.loadHeaderRow, sheet.getCellsInRange as loadHashes issues it before
\* the filter ("loadHashes") and after a failed save ("reloadHashes"), and
\* sheet.addRows
SheetRequests ==
  {"onProgress", "getDoc", "loadHeaderRow", "loadHashes", "addRows",
   "reloadHashes"}

\* createSaveStats(..., { highlightedTransactions: { Added: [] } })
createSaveStats ==
  [added |-> 0, existing |-> 0, otherSkipped |-> 0, Added |-> <<>>]

\* no call of saveTransactions made
NoCall ==
  [made |-> FALSE, io |-> [r \in SheetRequests |-> "none"],
   newTxns |-> <<>>, rowsWritten |-> <<>>, stats |-> createSaveStats]

\* the state of one saveTransactions call before its first statement
SheetsFresh ==
  /\ sheetPc = "entry"
  /\ sheetIo = [r \in SheetRequests |-> "none"]
  /\ progressLog = <<>>
  /\ existingHashes = {}
  /\ newTxns = <<>>
  /\ sheetStats = createSaveStats
  /\ rowsWritten = <<>>
  /\ sheetOutcome = "none"
  /\ sheetReports = <<>>

\* GoogleSheetsStorage.saveTransactions not called
SheetsIdle ==
  /\ hashType = ""
  /\ sheetTxns = <<>>
  /\ worksheet = "ok"
  /\ hashColumn = {}
  /\ SheetsFresh
  /\ sheetCall = 0
  /\ firstCall = NoCall

Init ==
  /\ canSave \in [StorageNames -> BOOLEAN]
  /\ invoiceConfig \in BOOLEAN
  /\ results \in SeqsUpTo(AccountScrapeResults, MaxResults)
  /\ Fresh
  /\ InsightsIdle
  /\ MonthlyIdle
  /\ SheetsIdle

\* ---------------------------------------------------------------- fan-out
\* parallel(storages.map(...)): every task runs to its first await, the
\* send of its "saving" status, in registration order.
InitialStatuses == [i \in 1..Len(storages) |-> saving(storages[i], <<>>)]

FanOut ==
  /\ sent' = sent \o InitialStatuses
  /\ messages' = messages \o InitialStatuses
  /\ taskPc' = [s \in StorageNames |-> IF s \in Active THEN "awaitSend" ELSE "idle"]
  /\ mainPc' = "join"

\* ------------------------------------------------------------ saveResults
\* saveResults from its entry to its first await.
Start ==
  /\ mainPc = "start"
  /\ IF Len(storages) = 0
       THEN /\ sent' = Append(sent, Text("No storages found, skipping save"))
            /\ messages' = Append(messages, Text("No storages found, skipping save"))
            /\ mainPc' = "awaitSend"
            /\ UNCHANGED <<allTransactions, normalized, derivations, errors,
                           invoiceQueue, invoiceIdx, invoiceRequests, taskPc>>
       ELSE LET r == resultsToTransactions(results)
                q == IF invoiceConfig THEN filterInsuranceVendorTransactions(r.rows) ELSE <<>>
            IN /\ allTransactions' = r.rows
               /\ normalized' = r.rows
               /\ derivations' = r.calls
               /\ errors' = errors \o r.errs
               /\ IF Len(r.rows) = 0
                    THEN /\ sent' = Append(sent, Text("No transactions found, skipping save"))
                         /\ messages' = Append(messages, Text("No transactions found, skipping save"))
                         /\ mainPc' = "awaitSend"
                         /\ UNCHANGED <<invoiceQueue, invoiceIdx, invoiceRequests, taskPc>>
                    ELSE IF Len(q) > 0
                      THEN /\ invoiceQueue' = q
                           /\ invoiceIdx' = 1
                           /\ invoiceRequests' = invoiceRequests + 1
                           /\ mainPc' = "invoice"
                           /\ UNCHANGED <<sent, messages, taskPc>>
                      ELSE /\ FanOut
                           /\ UNCHANGED <<invoiceQueue, invoiceIdx, invoiceRequests>>
  /\ UNCHANGED <<canSave, invoiceConfig, results, message, steps, saveCalls,
                 saveOutcome, taskResult, stats,
                 progressCalls,
                 editTargets, faultVars, insightVars,
                 monthlyVars, sheetVars>>

\* The awaited send of an early exit settles and saveResults returns.
EarlyReturn ==
  /\ mainPc = "awaitSend"
  /\ mainPc' = "returned"
  /\ UNCHANGED <<canSave, invoiceConfig, results, allTransactions, normalized,
                 derivations, invoiceQueue, invoiceIdx, invoiceRequests, sent,
                 messages, errors, taskPc, message, steps, saveCalls,
                 saveOutcome, taskResult, stats,
                 progressCalls,
                 editTargets, faultVars, insightVars,
                 monthlyVars, sheetVars>>

\* createInvoicesForTransactions: the createDoc request of the current row
\* settles; the loop goes on to the next row, or returns into the fan-out.
InvoiceSettled_FailureAborts(res) ==
  /\ mainPc = "invoice"
  /\ invoiceLog' = Append(invoiceLog,
                          [index |-> invoiceQueue[invoiceIdx], res |-> res])
  /\ allTransactions' =
       [allTransactions EXCEPT ![invoiceQueue[invoiceIdx]] =
          ApplyInvoiceResponse(allTransactions[invoiceQueue[invoiceIdx]], res)]
  /\ IF res = "failed"
       THEN /\ mainPc' = "threw"
            /\ UNCHANGED <<invoiceIdx, invoiceRequests, sent, messages, taskPc>>
       ELSE IF invoiceIdx < Len(invoiceQueue)
       THEN /\ invoiceIdx' = invoiceIdx + 1
            /\ invoiceRequests' = invoiceRequests + 1
            /\ UNCHANGED <<mainPc, sent, messages, taskPc>>
       ELSE /\ FanOut
            /\ UNCHANGED <<invoiceIdx, invoiceRequests>>
  /\ UNCHANGED <<canSave, invoiceConfig, results, normalized, derivations,
                 invoiceQueue, errors, message, steps, saveCalls, saveOutcome,
                 taskResult, stats,
                 progressCalls,
                 editTargets, notifierFailed, mutations, reportsSettled,
                 insightVars,
                 monthlyVars, sheetVars>>

InvoiceSettled_EagerFanOut(res) ==
  /\ mainPc = "invoice"
  /\ invoiceLog' = Append(invoiceLog,
                          [index |-> invoiceQueue[invoiceIdx], res |-> res])
  /\ allTransactions' =
       [allTransactions EXCEPT ![invoiceQueue[invoiceIdx]] =
          ApplyInvoiceResponse(allTransactions[invoiceQueue[invoiceIdx]], res)]
  /\ IF invoiceIdx < Len(invoiceQueue)
       THEN /\ invoiceIdx' = invoiceIdx + 1
            /\ invoiceRequests' = invoiceRequests + 1
            /\ sent' = sent \o InitialStatuses
            /\ messages' = messages \o InitialStatuses
            /\ taskPc' = [s \in StorageNames |->
                            IF s \in Active THEN "awaitSend" ELSE "idle"]
            /\ UNCHANGED mainPc
       ELSE /\ FanOut
            /\ UNCHANGED <<invoiceIdx, invoiceRequests>>
  /\ UNCHANGED <<canSave, invoiceConfig, results, normalized, derivations,
                 invoiceQueue, errors, message, steps, saveCalls, saveOutcome,
                 taskResult, stats,
                 progressCalls,
                 editTargets, notifierFailed, mutations, reportsSettled,
                 insightVars,
                 monthlyVars, sheetVars>>

InvoiceSettled_StopsAtFailure(res) ==
  /\ mainPc = "invoice"
  /\ invoiceLog' = Append(invoiceLog,
                          [index |-> invoiceQueue[invoiceIdx], res |-> res])
  /\ allTransactions' =
       [allTransactions EXCEPT ![invoiceQueue[invoiceIdx]] =
          ApplyInvoiceResponse(allTransactions[invoiceQueue[invoiceIdx]], res)]
  /\ IF invoiceIdx < Len(invoiceQueue) /\ res # "failed"
       THEN /\ invoiceIdx' = invoiceIdx + 1
            /\ invoiceRequests' = invoiceRequests + 1
            /\ UNCHANGED <<mainPc, sent, messages, taskPc>>
       ELSE /\ FanOut
            /\ UNCHANGED <<invoiceIdx, invoiceRequests>>
  /\ UNCHANGED <<canSave, invoiceConfig, results, normalized, derivations,
                 invoiceQueue, errors, message, steps, saveCalls, saveOutcome,
                 taskResult, stats,
                 progressCalls,
                 editTargets, notifierFailed, mutations, reportsSettled,
                 insightVars,
                 monthlyVars, sheetVars>>

InvoiceSettled(res) ==
  /\ mainPc = "invoice"
  /\ invoiceLog' = Append(invoiceLog,
                          [index |-> invoiceQueue[invoiceIdx], res |-> res])
  /\ allTransactions' =
       [allTransactions EXCEPT ![invoiceQueue[invoiceIdx]] =
          ApplyInvoiceResponse(allTransactions[invoiceQueue[invoiceIdx]], res)]
  /\ IF invoiceIdx < Len(invoiceQueue)
       THEN /\ invoiceIdx' = invoiceIdx + 1
            /\ invoiceRequests' = invoiceRequests + 1
            /\ UNCHANGED <<mainPc, sent, messages, taskPc>>
       ELSE /\ FanOut
            /\ UNCHANGED <<invoiceIdx, invoiceRequests>>
  /\ UNCHANGED <<canSave, invoiceConfig, results, normalized, derivations,
                 invoiceQueue, errors, message, steps, saveCalls, saveOutcome,
                 taskResult, stats,
                 progressCalls,
                 editTargets, notifierFailed, mutations, reportsSettled,
                 insightVars,
                 monthlyVars, sheetVars>>

\* --------------------------------------------------------- one task
HandleOf_Last(s) == Len(sent)

\* The handle send() gave to the task of storage s.
HandleOf(s) ==
  CHOOSE h \in 1..Len(sent) : sent[h] = saving(s, <<>>)

\* The array a task hands to saveTransactions.
SaveArgument_Filtered ==
  [i \in 1..Len(filterInsuranceVendorTransactions(allTransactions)) |->
     allTransactions[filterInsuranceVendorTransactions(allTransactions)[i]]]

SaveArgument == allTransactions

\* The initial send settles; the task calls storage.saveTransactions.
SendSettled_NoHandle(s) ==
  /\ taskPc[s] = "awaitSend"
  /\ message' = message
  /\ saveCalls' = [saveCalls EXCEPT ![s] = Append(@, SaveArgument)]
  /\ taskPc' = [taskPc EXCEPT ![s] = "saving"]
  /\ UNCHANGED <<canSave, invoiceConfig, results, mainPc, allTransactions,
                 normalized, derivations, invoiceQueue, invoiceIdx,
                 invoiceRequests, sent, messages, errors, steps, saveOutcome,
                 taskResult, stats,
                 progressCalls,
                 editTargets, faultVars, insightVars,
                 monthlyVars, sheetVars>>

SendSettled(s) ==
  /\ taskPc[s] = "awaitSend"
  /\ message' = [message EXCEPT ![s] = HandleOf(s)]
  /\ saveCalls' = [saveCalls EXCEPT ![s] = Append(@, SaveArgument)]
  /\ taskPc' = [taskPc EXCEPT ![s] = "saving"]
  /\ UNCHANGED <<canSave, invoiceConfig, results, mainPc, allTransactions,
                 normalized, derivations, invoiceQueue, invoiceIdx,
                 invoiceRequests, sent, messages, errors, steps, saveOutcome,
                 taskResult, stats,
                 progressCalls,
                 editTargets, faultVars, insightVars,
                 monthlyVars, sheetVars>>

OnProgress_SharedSteps(s, step) ==
  /\ taskPc[s] = "saving"
  /\ editTargets' = [editTargets EXCEPT ![s] = @ \cup {message[s]}]
  /\ Len(steps[s]) < MaxSteps
  /\ steps' = [t \in StorageNames |-> Append(EndLast(steps[t]), Timer(step))]
  /\ progressCalls' = [progressCalls EXCEPT ![s] = Append(@, step)]
  /\ taskPc' = [taskPc EXCEPT ![s] = "awaitEdit"]
  /\ UNCHANGED <<canSave, invoiceConfig, results, mainPc, allTransactions,
                 normalized, derivations, invoiceQueue, invoiceIdx,
                 invoiceRequests, sent, messages, errors, message, saveCalls,
                 saveOutcome, taskResult, stats,
                 faultVars, insightVars,
                 monthlyVars, sheetVars>>

OnProgress_NoAwait(s, step) ==
  /\ taskPc[s] = "saving"
  /\ editTargets' = [editTargets EXCEPT ![s] = @ \cup {message[s]}]
  /\ Len(steps[s]) < MaxSteps
  /\ steps' = [steps EXCEPT ![s] = Append(EndLast(@), Timer(step))]
  /\ progressCalls' = [progressCalls EXCEPT ![s] = Append(@, step)]
  /\ taskPc' = taskPc
  /\ UNCHANGED <<canSave, invoiceConfig, results, mainPc, allTransactions,
                 normalized, derivations, invoiceQueue, invoiceIdx,
                 invoiceRequests, sent, messages, errors, message, saveCalls,
                 saveOutcome, taskResult, stats,
                 faultVars, insightVars,
                 monthlyVars, sheetVars>>

\* The backend calls onProgress(step): the callback up to its await.
OnProgress(s, step) ==
  /\ taskPc[s] = "saving"
  /\ editTargets' = [editTargets EXCEPT ![s] = @ \cup {message[s]}]
  /\ Len(steps[s]) < MaxSteps
  /\ steps' = [steps EXCEPT ![s] = Append(EndLast(@), Timer(step))]
  /\ progressCalls' = [progressCalls EXCEPT ![s] = Append(@, step)]
  /\ taskPc' = [taskPc EXCEPT ![s] = "awaitEdit"]
  /\ UNCHANGED <<canSave, invoiceConfig, results, mainPc, allTransactions,
                 normalized, derivations, invoiceQueue, invoiceIdx,
                 invoiceRequests, sent, messages, errors, message, saveCalls,
                 saveOutcome, taskResult, stats,
                 faultVars, insightVars,
                 monthlyVars, sheetVars>>

\* The edit of the callback settles and the backend, which awaited it, goes on.
EditSettled(s) ==
  /\ taskPc[s] = "awaitEdit"
  /\ messages' = [messages EXCEPT ![message[s]] = saving(s, steps[s])]
  /\ taskPc' = [taskPc EXCEPT ![s] = "saving"]
  /\ UNCHANGED <<canSave, invoiceConfig, results, mainPc, allTransactions,
                 normalized, derivations, invoiceQueue, invoiceIdx,
                 invoiceRequests, sent, errors, message, steps, saveCalls,
                 saveOutcome, taskResult, stats,
                 progressCalls,
                 editTargets, faultVars, insightVars,
                 monthlyVars, sheetVars>>

\* The SaveStats a backend may resolve with.
SaveStats(s, txns) ==
  {[name |-> s, added |-> k, existing |-> Len(txns) - k] : k \in {0, Len(txns)}}

SaveResolved_NoEnd(s, st) ==
  /\ taskPc[s] = "saving"
  /\ editTargets' = [editTargets EXCEPT ![s] = @ \cup {message[s]}]
  /\ saveOutcome' = [saveOutcome EXCEPT ![s] = "resolved"]
  /\ stats' = [stats EXCEPT ![s] = st]
  /\ taskPc' = [taskPc EXCEPT ![s] = "awaitFinal"]
  /\ UNCHANGED <<canSave, invoiceConfig, results, mainPc, allTransactions,
                 normalized, derivations, invoiceQueue, invoiceIdx,
                 invoiceRequests, sent, messages, errors, message, saveCalls,
                 taskResult, steps, progressCalls,
                 faultVars, insightVars,
                 monthlyVars, sheetVars>>

\* saveTransactions resolves: the task ends the last step and issues the
\* edit that carries the stats summary.
SaveResolved(s, st) ==
  /\ taskPc[s] = "saving"
  /\ editTargets' = [editTargets EXCEPT ![s] = @ \cup {message[s]}]
  /\ saveOutcome' = [saveOutcome EXCEPT ![s] = "resolved"]
  /\ stats' = [stats EXCEPT ![s] = st]
  /\ steps' = [steps EXCEPT ![s] = EndLast(@)]
  /\ taskPc' = [taskPc EXCEPT ![s] = "awaitFinal"]
  /\ UNCHANGED <<canSave, invoiceConfig, results, mainPc, allTransactions,
                 normalized, derivations, invoiceQueue, invoiceIdx,
                 invoiceRequests, sent, messages, errors, message, saveCalls,
                 taskResult,
                 progressCalls,
                 faultVars, insightVars,
                 monthlyVars, sheetVars>>

AfterCatch_Rethrow == "rejected"

\* How the promise of a task settles once its catch block has run.
AfterCatch == "fulfilled"

SaveRejected_AbortsAll(s) ==
  /\ taskPc[s] = "saving"
  /\ saveOutcome' = [saveOutcome EXCEPT ![s] = "rejected"]
  /\ errors' = Append(errors, SaveErrorLabel(s))
  /\ taskPc' = [t \in StorageNames |-> IF t \in Active THEN "done" ELSE taskPc[t]]
  /\ taskResult' = [t \in StorageNames |->
                      IF t \in Active /\ taskResult[t] = "pending"
                        THEN "fulfilled" ELSE taskResult[t]]
  /\ UNCHANGED <<canSave, invoiceConfig, results, mainPc, allTransactions,
                 normalized, derivations, invoiceQueue, invoiceIdx,
                 invoiceRequests, sent, messages, message, steps, saveCalls,
                 stats, progressCalls,
                 editTargets, faultVars, insightVars,
                 monthlyVars, sheetVars>>

SaveRejected_Silent(s) ==
  /\ taskPc[s] = "saving"
  /\ saveOutcome' = [saveOutcome EXCEPT ![s] = "rejected"]
  /\ taskPc' = [taskPc EXCEPT ![s] = "done"]
  /\ taskResult' = [taskResult EXCEPT ![s] = AfterCatch]
  /\ UNCHANGED <<canSave, invoiceConfig, results, mainPc, allTransactions,
                 normalized, derivations, invoiceQueue, invoiceIdx,
                 invoiceRequests, sent, messages, message, steps, saveCalls,
                 stats, progressCalls, errors,
                 editTargets, faultVars, insightVars,
                 monthlyVars, sheetVars>>

\* saveTransactions rejects: the catch block reports the error, unawaited,
\* and the task ends.
SaveRejected(s) ==
  /\ taskPc[s] = "saving"
  /\ saveOutcome' = [saveOutcome EXCEPT ![s] = "rejected"]
  /\ errors' = Append(errors, SaveErrorLabel(s))
  /\ taskPc' = [taskPc EXCEPT ![s] = "done"]
  /\ taskResult' = [taskResult EXCEPT ![s] = AfterCatch]
  /\ UNCHANGED <<canSave, invoiceConfig, results, mainPc, allTransactions,
                 normalized, derivations, invoiceQueue, invoiceIdx,
                 invoiceRequests, sent, messages, message, steps, saveCalls, stats,
                 progressCalls,
                 editTargets, faultVars, insightVars,
                 monthlyVars, sheetVars>>

FinalEditSettled_WaitsForAll(s) ==
  /\ taskPc[s] = "awaitFinal"
  /\ \A t \in Active : saveOutcome[t] # "none"
  /\ messages' = [messages EXCEPT ![message[s]] = statsString(stats[s], steps[s])]
  /\ taskPc' = [taskPc EXCEPT ![s] = "done"]
  /\ taskResult' = [taskResult EXCEPT ![s] = "fulfilled"]
  /\ UNCHANGED <<canSave, invoiceConfig, results, mainPc, allTransactions,
                 normalized, derivations, invoiceQueue, invoiceIdx,
                 invoiceRequests, sent, errors, message, steps, saveCalls,
                 saveOutcome, stats,
                 progressCalls,
                 editTargets, faultVars, insightVars,
                 monthlyVars, sheetVars>>

\* The edit with the stats summary settles and the task ends.
FinalEditSettled_ProgressLast(s) ==
  /\ taskPc[s] = "awaitFinal"
  /\ messages' = [messages EXCEPT ![message[s]] = saving(s, steps[s])]
  /\ taskPc' = [taskPc EXCEPT ![s] = "done"]
  /\ taskResult' = [taskResult EXCEPT ![s] = "fulfilled"]
  /\ UNCHANGED <<canSave, invoiceConfig, results, mainPc, allTransactions,
                 normalized, derivations, invoiceQueue, invoiceIdx,
                 invoiceRequests, sent, errors, message, steps, saveCalls,
                 saveOutcome, stats,
                 progressCalls,
                 editTargets, faultVars, insightVars,
                 monthlyVars, sheetVars>>

FinalEditSettled(s) ==
  /\ taskPc[s] = "awaitFinal"
  /\ messages' = [messages EXCEPT ![message[s]] = statsString(stats[s], steps[s])]
  /\ taskPc' = [taskPc EXCEPT ![s] = "done"]
  /\ taskResult' = [taskResult EXCEPT ![s] = "fulfilled"]
  /\ UNCHANGED <<canSave, invoiceConfig, results, mainPc, allTransactions,
                 normalized, derivations, invoiceQueue, invoiceIdx,
                 invoiceRequests, sent, errors, message, steps, saveCalls,
                 saveOutcome, stats,
                 progressCalls,
                 editTargets, faultVars, insightVars,
                 monthlyVars, sheetVars>>

ParallelSettled_NotAwaited ==
  /\ mainPc = "join"
  /\ mainPc' = "returned"
  /\ UNCHANGED <<canSave, invoiceConfig, results, allTransactions, normalized,
                 derivations, invoiceQueue, invoiceIdx, invoiceRequests, sent,
                 messages, errors, taskPc, message, steps, saveCalls,
                 saveOutcome, taskResult, stats, progressCalls,
                 editTargets, faultVars, insightVars,
                 monthlyVars, sheetVars>>

\* async.parallel: its promise rejects as soon as one task has rejected and
\* resolves once every task has fulfilled; `await parallel(...)` then ends
\* saveResults.
ParallelSettled ==
  /\ mainPc = "join"
  /\ \/ \E s \in Active : taskResult[s] = "rejected"
     \/ \A s \in Active : taskResult[s] = "fulfilled"
  /\ mainPc' = IF \E s \in Active : taskResult[s] = "rejected"
                 THEN "threw" ELSE "returned"
  /\ UNCHANGED <<canSave, invoiceConfig, results, allTransactions, normalized,
                 derivations, invoiceQueue, invoiceIdx, invoiceRequests, sent,
                 messages, errors, taskPc, message, steps, saveCalls,
                 saveOutcome, taskResult, stats,
                 progressCalls,
                 editTargets, faultVars, insightVars,
                 monthlyVars, sheetVars>>

Next ==
  \/ Start
  \/ EarlyReturn
  \/ \E res \in InvoiceResponses : InvoiceSettled(res)
  \/ \E s \in StorageNames : SendSettled(s)
  \/ \E s \in StorageNames, step \in StepNames : OnProgress(s, step)
  \/ \E s \in StorageNames : EditSettled(s)
  \/ \E s \in StorageNames : \E st \in SaveStats(s, allTransactions) : SaveResolved(s, st)
  \/ \E s \in StorageNames : SaveRejected(s)
  \/ \E s \in StorageNames : FinalEditSettled(s)
  \/ ParallelSettled

Spec == Init /\ [][Next]_vars

\* An input of at most one scrape result, for the specifications whose
\* subject is the fan-out and not the normalization.
InitSmall == Init /\ Len(results) <= 1

\* ------------------------------------------------------ fair scheduling
\* The event loop runs every continuation whose awaited notifier call has
\* settled, and the notifier answers every call; nothing makes a backend
\* settle its saveTransactions, so a backend may hang for ever.
Fairness ==
  \A s \in StorageNames :
    /\ WF_vars(SendSettled(s))
    /\ WF_vars(EditSettled(s))
    /\ WF_vars(FinalEditSettled(s))

SpecFair == InitSmall /\ [][Next]_vars /\ Fairness

\* --------------------------------------------- a notifier that may fail
\* send(saving(name)) rejects: the await throws inside the try block, the
\* catch block reports the error and the task ends; saveTransactions is
\* never called.
SendFailed(s) ==
  /\ taskPc[s] = "awaitSend"
  /\ notifierFailed' = [notifierFailed EXCEPT ![s] = "send"]
  /\ errors' = Append(errors, SaveErrorLabel(s))
  /\ taskPc' = [taskPc EXCEPT ![s] = "done"]
  /\ taskResult' = [taskResult EXCEPT ![s] = AfterCatch]
  /\ UNCHANGED <<canSave, invoiceConfig, results, mainPc, allTransactions,
                 normalized, derivations, invoiceQueue, invoiceIdx,
                 invoiceRequests, sent, messages, message, steps, saveCalls,
                 saveOutcome, stats, progressCalls, editTargets, mutations, reportsSettled, invoiceLog,
                 insightVars,
                 monthlyVars, sheetVars>>

\* The editMessage of an onProgress call rejects, and with it the promise
\* the callback returned.  A backend that awaits it bare (GoogleSheetsStorage
\* does, `await onProgress(...)` and Promise.all) rejects in turn and the
\* catch block of the task runs; one that settles it aside (allSettled)
\* goes on.
EditFailed(s, propagates) ==
  /\ taskPc[s] = "awaitEdit"
  /\ IF propagates
       THEN /\ notifierFailed' = [notifierFailed EXCEPT ![s] = "editAbort"]
            /\ saveOutcome' = [saveOutcome EXCEPT ![s] = "rejected"]
            /\ errors' = Append(errors, SaveErrorLabel(s))
            /\ taskPc' = [taskPc EXCEPT ![s] = "done"]
            /\ taskResult' = [taskResult EXCEPT ![s] = AfterCatch]
       ELSE /\ notifierFailed' = [notifierFailed EXCEPT ![s] = "edit"]
            /\ taskPc' = [taskPc EXCEPT ![s] = "saving"]
            /\ UNCHANGED <<saveOutcome, errors, taskResult>>
  /\ UNCHANGED <<canSave, invoiceConfig, results, mainPc, allTransactions,
                 normalized, derivations, invoiceQueue, invoiceIdx,
                 invoiceRequests, sent, messages, message, steps, saveCalls,
                 stats, progressCalls, editTargets, mutations,
                 reportsSettled, invoiceLog, insightVars,
                 monthlyVars, sheetVars>>

\* The editMessage carrying the stats summary rejects: the catch block
\* reports it under the backend's name and the task ends.
FinalEditFailed(s) ==
  /\ taskPc[s] = "awaitFinal"
  /\ notifierFailed' = [notifierFailed EXCEPT ![s] = "final"]
  /\ errors' = Append(errors, SaveErrorLabel(s))
  /\ taskPc' = [taskPc EXCEPT ![s] = "done"]
  /\ taskResult' = [taskResult EXCEPT ![s] = AfterCatch]
  /\ UNCHANGED <<canSave, invoiceConfig, results, mainPc, allTransactions,
                 normalized, derivations, invoiceQueue, invoiceIdx,
                 invoiceRequests, sent, messages, message, steps, saveCalls,
                 saveOutcome, stats, progressCalls, editTargets, mutations, reportsSettled, invoiceLog,
                 insightVars,
                 monthlyVars, sheetVars>>

NextFaulty ==
  \/ Next
  \/ \E s \in StorageNames : SendFailed(s)
  \/ \E s \in StorageNames, propagates \in BOOLEAN : EditFailed(s, propagates)
  \/ \E s \in StorageNames : FinalEditFailed(s)

SpecFaulty == InitSmall /\ [][NextFaulty]_vars

\* ===================================================== properties checked
\* The raw transactions of the successful results, in input order, each with
\* the institution and the account it was scraped from.
RECURSIVE AccountTxns(_, _)
AccountTxns(accounts, companyId) ==
  IF accounts = <<>> THEN <<>>
  ELSE [i \in 1..Len(Head(accounts).txns) |->
          [tx |-> Head(accounts).txns[i], companyId |-> companyId,
           accountNumber |-> Head(accounts).accountNumber]]
       \o AccountTxns(Tail(accounts), companyId)

RECURSIVE SuccessfulTxns(_)
SuccessfulTxns(rs) ==
  IF rs = <<>> THEN <<>>
  ELSE (IF Head(rs).success
          THEN AccountTxns(Head(rs).accounts, Head(rs).companyId) ELSE <<>>)
       \o SuccessfulTxns(Tail(rs))

WellFormedTxns(rs) == SelectSeq(SuccessfulTxns(rs), LAMBDA e : ~Malformed(e.tx))

FailingTxns(rs) == SelectSeq(SuccessfulTxns(rs), LAMBDA e : Malformed(e.tx))

TxnErrors == SelectSeq(errors, LAMBDA l : l[1] = "Failed to process transaction")

SaveErrors(s) == SelectSeq(errors, LAMBDA l : l = SaveErrorLabel(s))

Normalized == mainPc # "start" /\ Len(storages) > 0

ReachedFanOut == mainPc \in {"join", "returned", "threw"} /\ Len(normalized) > 0

Finished == mainPc \in {"returned", "threw"}

AllEnded(timers) == \A i \in 1..Len(timers) : timers[i].ended

\* The fields normalization gives a row (all but the invoice links).
Canonical(row) ==
  [date |-> row.date, description |-> row.description,
   originalAmount |-> row.originalAmount, account |-> row.account,
   companyId |-> row.companyId, hash |-> row.hash, uniqueId |-> row.uniqueId]

CanonicalSeq(rows) == [i \in 1..Len(rows) |-> Canonical(rows[i])]

\* Some step of the task of storage s.
TaskStep(s) ==
  \/ SendSettled(s)
  \/ \E step \in StepNames : OnProgress(s, step)
  \/ EditSettled(s)
  \/ \E st \in SaveStats(s, allTransactions) : SaveResolved(s, st)
  \/ SaveRejected(s)
  \/ FinalEditSettled(s)

\* C1 -- Backend isolation: once backend a's saveTransactions has rejected,
\* every other active backend b is still started and never cancelled (its task
\* is finished or can take a step), a finished b has been invoked and has
\* settled by itself, and if b resolved its status message, the one with b's
\* own handle, holds b's own stats summary.
C1_BackendIsolation ==
  \A a \in Active : \A b \in Active \ {a} :
    saveOutcome[a] = "rejected" =>
      /\ taskPc[b] # "idle"
      /\ taskPc[b] # "done" => ENABLED TaskStep(b)
      /\ taskPc[b] = "done" =>
           /\ Len(saveCalls[b]) = 1
           /\ saveOutcome[b] \in {"resolved", "rejected"}
           /\ saveOutcome[b] = "resolved" =>
                /\ message[b] = HandleOf(b)
                /\ message[b] # message[a]
                /\ stats[b].name = b
                /\ messages[message[b]] = statsString(stats[b], steps[b])

\* the first backend rejected at once, and the other, after some steps,
\* still ended with its own stats in its own message
C1_Witness ==
  \E a \in Active : \E b \in Active \ {a} :
    /\ saveOutcome[a] = "rejected"
    /\ message[a] = 1
    /\ steps[a] = <<>>
    /\ taskPc[b] = "done"
    /\ saveOutcome[b] = "resolved"
    /\ Len(steps[b]) > 0
    /\ messages[message[b]] = statsString(stats[b], steps[b])

\* C2 -- Join: when saveResults has returned from a run that reached the
\* fan-out, the task of every active backend has finished: its saveTransactions
\* has settled and the outcome has been handled.
C2_Join ==
  (Finished /\ ReachedFanOut) =>
    \A s \in Active :
      /\ taskPc[s] = "done"
      /\ saveOutcome[s] \in {"resolved", "rejected"}
      /\ taskResult[s] # "pending"

\* saveResults returned after one backend rejected and another resolved
C2_Witness ==
  /\ mainPc = "returned"
  /\ \E a \in Active : \E b \in Active \ {a} :
       /\ saveOutcome[a] = "rejected"
       /\ saveOutcome[b] = "resolved"
       /\ taskPc[a] = "done" /\ taskPc[b] = "done"

\* C3 -- saveResults never rejects: whatever subset of the active backends
\* rejects, no task's promise rejects and the run does not end by a throw.
C3_CompletesNormally ==
  /\ mainPc # "threw"
  /\ \A s \in StorageNames : taskResult[s] # "rejected"
  /\ (mainPc = "join" /\ \A s \in Active : taskPc[s] = "done") => ENABLED ParallelSettled

\* saveResults returned although every one of two active backends rejected
C3_Witness ==
  /\ mainPc = "returned"
  /\ Cardinality(Active) = 2
  /\ \A s \in Active : saveOutcome[s] = "rejected"

\* C4 -- Isolation on malformed input: of the n raw transactions of the
\* successful results, k failing derivation, normalization keeps exactly the
\* n-k others, in order, reports exactly the k failing ones, and goes on.
C4_MalformedIsolation ==
  Normalized =>
    /\ Len(normalized) = Len(SuccessfulTxns(results)) - Len(FailingTxns(results))
    /\ normalized = [i \in 1..Len(WellFormedTxns(results)) |->
                       LET e == WellFormedTxns(results)[i]
                       IN RowOf(e.tx, e.companyId, e.accountNumber)]
    /\ TxnErrors = [i \in 1..Len(FailingTxns(results)) |->
                      LET e == FailingTxns(results)[i]
                      IN TxnErrorLabel(e.tx, e.companyId, e.accountNumber)]
    /\ mainPc # "threw"
    /\ Len(normalized) > 0 => mainPc \in {"invoice", "join", "returned"}

\* a batch with both a failing and a well-formed transaction was normalized
C4_Witness ==
  /\ Normalized
  /\ Len(FailingTxns(results)) >= 1
  /\ Len(normalized) >= 1
  /\ Len(TxnErrors) = Len(FailingTxns(results))
  /\ mainPc = "returned"

\* C5 -- With a non-empty active set and at least one normalized row, every
\* active backend's saveTransactions is invoked exactly once by the time
\* saveResults returns (never more than once before), with every row that
\* normalization produced, in order, and the same array for every backend.
C5_EveryBackendGetsAllRows ==
  /\ \A s \in StorageNames :
       /\ Len(saveCalls[s]) <= 1
       /\ s \notin Active => saveCalls[s] = <<>>
       /\ taskPc[s] \in {"saving", "awaitEdit", "awaitFinal", "done"} => Len(saveCalls[s]) = 1
       /\ Len(saveCalls[s]) = 1 => CanonicalSeq(saveCalls[s][1]) = CanonicalSeq(normalized)
  /\ \A s, t \in Active :
       (Len(saveCalls[s]) = 1 /\ Len(saveCalls[t]) = 1) => saveCalls[s][1] = saveCalls[t][1]
  /\ (Finished /\ Len(storages) > 0 /\ Len(normalized) > 0) =>
       \A s \in Active : Len(saveCalls[s]) = 1

\* two backends were handed rows of which only some are insurance payments
C5_Witness ==
  /\ mainPc = "returned"
  /\ Cardinality(Active) = 2
  /\ Len(normalized) = 2
  /\ Len(filterInsuranceVendorTransactions(normalized)) = 1
  /\ \A s \in Active : Len(saveCalls[s]) = 1 /\ Len(saveCalls[s][1]) = 2

\* C6 -- No active backends: when no storage can save, saveResults sends the
\* one "no storages" notification and returns; it derives no hash, reports no
\* error, requests no invoice and calls no saveTransactions.
C6_NoStorages ==
  ((\A s \in StorageNames : ~canSave[s]) /\ mainPc # "start") =>
    /\ sent = <<Text("No storages found, skipping save")>>
    /\ mainPc \in {"awaitSend", "returned"}
    /\ derivations = 0
    /\ normalized = <<>>
    /\ errors = <<>>
    /\ invoiceRequests = 0
    /\ \A s \in StorageNames : saveCalls[s] = <<>> /\ taskPc[s] = "idle"

\* no storage, an input with a well-formed and a failing transaction
C6_Witness ==
  /\ \A s \in StorageNames : ~canSave[s]
  /\ mainPc = "returned"
  /\ Len(WellFormedTxns(results)) >= 1
  /\ Len(FailingTxns(results)) >= 1
  /\ Len(sent) = 1

\* C7 -- Empty-input short circuit: with an active backend and no transaction
\* in any successful result, exactly one notification is sent, the "no
\* transactions" one; no "saving" status is sent, no task is started and no
\* saveTransactions is called.
C7_EmptyInput ==
  (Len(storages) > 0 /\ SuccessfulTxns(results) = <<>> /\ mainPc # "start") =>
    /\ sent = <<Text("No transactions found, skipping save")>>
    /\ mainPc \in {"awaitSend", "returned"}
    /\ errors = <<>>
    /\ \A s \in StorageNames : saveCalls[s] = <<>> /\ taskPc[s] = "idle"

\* every result failed, though one of them carries a transaction
C7_Witness ==
  /\ Len(storages) > 0
  /\ mainPc = "returned"
  /\ Len(results) >= 1
  /\ \A i \in 1..Len(results) : ~results[i].success
  /\ \E i \in 1..Len(results) :
       Len(results[i].accounts) > 0 /\ Len(results[i].accounts[1].txns) > 0
  /\ Len(sent) = 1

\* C8 -- Progress timeline: the timeline of a backend holds exactly its own
\* onProgress calls, by name and in call order, and every step but the last
\* is closed.
C8_Timeline ==
  \A s \in StorageNames :
    /\ Len(steps[s]) = Len(progressCalls[s])
    /\ \A i \in 1..Len(steps[s]) : steps[s][i].name = progressCalls[s][i]
    /\ \A i \in 1..(Len(steps[s]) - 1) : steps[s][i].ended

\* two backends interleave their calls: one fetch, write; the other write
C8_Witness ==
  \E a \in Active : \E b \in Active \ {a} :
    /\ progressCalls[a] = <<"fetch", "write">>
    /\ progressCalls[b] = <<"write">>
    /\ taskPc[b] = "awaitEdit"
    /\ steps[a][1].ended /\ ~steps[a][2].ended

\* C9 as stated -- once a backend's task has finished, on success or on
\* failure, no step of its timeline is open.
C9_Original ==
  \A s \in StorageNames : taskPc[s] = "done" => AllEnded(steps[s])

\* C9 amended -- the last step is closed only when saveTransactions resolves:
\* from then on no step is open; when it rejects the timeline is left as it
\* was, its last step open.
C9_ClosedOnSuccessOnly ==
  \A s \in StorageNames :
    /\ saveOutcome[s] = "resolved" => AllEnded(steps[s])
    /\ (saveOutcome[s] = "rejected" /\ steps[s] # <<>>) =>
         ~steps[s][Len(steps[s])].ended

\* one backend resolved and one rejected, each after two steps
C9_Witness ==
  \E a \in Active : \E b \in Active \ {a} :
    /\ taskPc[a] = "done" /\ saveOutcome[a] = "resolved" /\ Len(steps[a]) = 2
    /\ taskPc[b] = "done" /\ saveOutcome[b] = "rejected" /\ Len(steps[b]) = 2

\* C10 -- One terminal outcome: a finished task of a run that reached the
\* fan-out has either put the stats summary in its status message or
\* reported one error tagged with its backend's name, never both or neither.
C10_OneTerminalOutcome ==
  \A s \in Active :
    (ReachedFanOut /\ taskPc[s] = "done") =>
      LET shown == messages[message[s]].kind = "stats"
      IN /\ message[s] \in 1..Len(messages)
         /\ shown \/ Len(SaveErrors(s)) = 1
         /\ ~(shown /\ Len(SaveErrors(s)) > 0)
         /\ shown <=> saveOutcome[s] = "resolved"

\* both outcomes in one finished run
C10_Witness ==
  /\ mainPc = "returned"
  /\ \E a \in Active : \E b \in Active \ {a} :
       /\ taskPc[a] = "done" /\ taskPc[b] = "done"
       /\ messages[message[a]].kind = "stats" /\ SaveErrors(a) = <<>>
       /\ messages[message[b]].kind = "saving" /\ Len(SaveErrors(b)) = 1

\* C11 as stated -- a failure of the notification channel is not fatal to a
\* save: a task whose initial send failed still calls saveTransactions, and
\* no saveTransactions is aborted because an edit of onProgress failed.
C11_NotifierNonFatal ==
  \A s \in Active :
    /\ (notifierFailed[s] = "send" /\ taskPc[s] = "done") => Len(saveCalls[s]) = 1
    /\ notifierFailed[s] # "editAbort"

\* The rows of allTransactions whose invoice request has settled.
Invoiced ==
  {invoiceQueue[j] : j \in {k \in 1..Len(invoiceQueue) :
                              k < invoiceIdx \/ mainPc # "invoice"}}

Terminal(b) ==
  /\ taskPc[b] = "done"
  /\ \/ messages[message[b]].kind = "stats"
     \/ Len(SaveErrors(b)) >= 1

\* C13 -- A hanging backend stalls only itself: under fair scheduling every
\* backend whose saveTransactions has settled reaches its terminal report,
\* whether or not another backend's saveTransactions ever settles.
C13_HangStallsOnlyItself ==
  \A b \in StorageNames : (saveOutcome[b] # "none") ~> Terminal(b)

\* one backend is still inside saveTransactions, after a step of its own,
\* while the other has its stats summary
C13_Witness ==
  \E a \in Active : \E b \in Active \ {a} :
    /\ taskPc[a] = "saving" /\ saveOutcome[a] = "none" /\ Len(steps[a]) = 1
    /\ saveOutcome[b] = "resolved"
    /\ Terminal(b)
    /\ mainPc = "join"

\* The backend a message belongs to: the one named in the text that
\* created it.
OwnerOf(h) == sent[h].name

\* C14 -- Status message handles are backend-scoped: every edit issued for
\* backend a, progress or final, names the handle of the message a's own
\* initial send created, never the handle another backend b obtained; so the
\* text of a status message is always one written for its own backend.
C14_HandlesBackendScoped ==
  /\ \A a \in Active : \A h \in editTargets[a] :
       /\ h \in 1..Len(sent)
       /\ sent[h] = saving(a, <<>>)
       /\ \A b \in Active \ {a} : h # message[b]
  /\ \A h \in 1..Len(messages) :
       /\ messages[h].kind = "saving" => messages[h].name = OwnerOf(h)
       /\ messages[h].kind = "stats" => messages[h].stats.name = OwnerOf(h)

\* two backends have both edited, one its progress and one its final stats
C14_Witness ==
  \E a \in Active : \E b \in Active \ {a} :
    /\ editTargets[a] = {message[a]}
    /\ editTargets[b] = {message[b]}
    /\ message[a] = 1 /\ message[b] = 2
    /\ messages[1].kind = "stats"
    /\ messages[2].kind = "saving" /\ Len(messages[2].steps) = 2

SuccessfulResults(rs) == SelectSeq(rs, LAMBDA r : r.success)

\* C15 -- A failed scrape result contributes nothing: normalization yields
\* the rows, the error reports and the derivations it yields for the input
\* without its failed results, whatever those carry; if every result failed
\* there is no row and no report.
C15_FailedResultsIgnored ==
  Normalized =>
    /\ normalized = resultsToTransactions(SuccessfulResults(results)).rows
    /\ TxnErrors = resultsToTransactions(SuccessfulResults(results)).errs
    /\ derivations = resultsToTransactions(SuccessfulResults(results)).calls
    /\ SuccessfulResults(results) = <<>> => (normalized = <<>> /\ errors = <<>>)

\* a failed result that carries a date-less transaction, next to a
\* successful result with a well-formed one
C15_Witness ==
  /\ Normalized
  /\ Len(results) = 2
  /\ \E i, j \in 1..2 :
       /\ ~results[i].success
       /\ Len(results[i].accounts) = 1
       /\ Len(results[i].accounts[1].txns) = 1
       /\ Malformed(results[i].accounts[1].txns[1])
       /\ results[j].success
  /\ Len(normalized) = 1
  /\ errors = <<>>

\* the raw fields and identifiers a row was derived from
KeyInputs(row) ==
  <<row.date, row.description, row.originalAmount, row.companyId, row.account>>

C17_Rendezvous ==
  \A s \in Active :
    /\ (taskPc[s] = "saving" /\ steps[s] # <<>>) =>
         messages[message[s]] = saving(s, steps[s])
    /\ taskPc[s] = "awaitEdit" =>
         /\ messages[message[s]].kind = "saving"
         /\ Len(messages[message[s]].steps) = Len(steps[s]) - 1
         /\ \A b \in Active \ {s} : taskPc[b] # "done" => ENABLED TaskStep(b)

\* both backends wait for an edit at the same time, one for its second step
C17_Witness ==
  \E a \in Active : \E b \in Active \ {a} :
    /\ taskPc[a] = "awaitEdit" /\ Len(steps[a]) = 2
    /\ messages[message[a]] = saving(a, <<[name |-> steps[a][1].name, ended |-> FALSE]>>)
    /\ taskPc[b] = "awaitEdit" /\ Len(steps[b]) = 1

\* A link a backend attaches to a row of its own accord.
BackendLink == 2

\* The rows backend s reads while it saves: the array it was handed is the
\* array object of the core, passed by reference, so its reads see the
\* object as it is now.
RowsSeenBy(s) == allTransactions

\* Backend s, while its save runs, attaches a derived field to row i of the
\* array it was handed.
BackendMutates(s, i) ==
  /\ mainPc = "join"
  /\ taskPc[s] = "saving"
  /\ saveOutcome[s] = "none"
  /\ i \in 1..Len(allTransactions)
  /\ [by |-> s, index |-> i] \notin mutations
  /\ allTransactions' = [allTransactions EXCEPT ![i].pdf_link = BackendLink]
  /\ mutations' = mutations \cup {[by |-> s, index |-> i]}
  /\ UNCHANGED <<canSave, invoiceConfig, results, mainPc, normalized,
                 derivations, invoiceQueue, invoiceIdx, invoiceRequests, sent,
                 messages, errors, taskPc, message, steps, saveCalls,
                 saveOutcome, stats, taskResult, progressCalls, editTargets,
                 notifierFailed, reportsSettled, invoiceLog, insightVars,
                 monthlyVars, sheetVars>>

NextShared ==
  \/ Next
  \/ \E s \in StorageNames, i \in 1..MaxResults : BackendMutates(s, i)

SpecShared == InitSmall /\ [][NextShared]_vars

MaxInsightTxns == 3

InsightAmounts == {-2, -1, 0, 1}

\* "" is an empty category cell; "constructor" and "__proto__" are category
\* texts that name members every object inherits.
InsightCategories == {"", "Food", "Rent", "constructor", "__proto__"}

SheetTransactions == [amount : InsightAmounts, category : InsightCategories]

\* Keys for which a lookup on a fresh {} finds an inherited, truthy member.
InheritedKeys == {"constructor", "__proto__"}

\* Inherited keys whose assignment runs a setter that drops a non-object
\* value instead of creating an own property.
SetterKeys == {"__proto__"}

Abs(x) == IF x < 0 THEN -x ELSE x

ExpenseOf_Signed(tx) == tx.amount

\* Math.abs(tx.amount)
ExpenseOf(tx) == Abs(tx.amount)

\* tx.category || "Uncategorized"
CategoryOf(tx) == IF tx.category = "" THEN "Uncategorized" ELSE tx.category

\* index of the own property c of categoryTotals, 0 if there is none
OwnIndex(totals, c) ==
  IF \E i \in 1..Len(totals) : totals[i].category = c
  THEN CHOOSE i \in 1..Len(totals) : totals[i].category = c
  ELSE 0

\* categoryTotals[c] = (categoryTotals[c] || 0) + a.  An entry holds either
\* a number (numeric, amount) or the string that + builds from a
\* non-number left operand: the inherited member's text followed by the
\* numbers appended so far (suffix).
AddToCategory(totals, c, a) ==
  LET i == OwnIndex(totals, c)
  IN IF i # 0
     THEN [totals EXCEPT ![i] =
             IF @.numeric THEN [@ EXCEPT !.amount = @ + a]
             ELSE [@ EXCEPT !.suffix = Append(@, a)]]
     ELSE IF c \in InheritedKeys
     THEN IF c \in SetterKeys THEN totals
          ELSE Append(totals, [category |-> c, numeric |-> FALSE,
                               amount |-> 0, suffix |-> <<a>>])
     ELSE Append(totals, [category |-> c, numeric |-> TRUE,
                          amount |-> a, suffix |-> <<>>])

\* the loop over the transactions
RECURSIVE Accumulate(_, _)
Accumulate(txs, acc) ==
  IF txs = <<>> THEN acc
  ELSE LET tx == Head(txs)
       IN Accumulate(Tail(txs),
            IF tx.amount < 0
            THEN [acc EXCEPT
                    !.totalExpenses = @ + ExpenseOf(tx),
                    !.categoryTotals = AddToCategory(@, CategoryOf(tx), ExpenseOf(tx))]
            ELSE [acc EXCEPT !.totalIncome = @ + tx.amount])

\* percentage as the fraction <<numerator, denominator>>; NaN for a string
NaN == <<0, 0>>

BreakdownEntry(e, totalExpenses) ==
  [category |-> e.category, numeric |-> e.numeric, amount |-> e.amount,
   suffix |-> e.suffix,
   percentage |-> IF totalExpenses > 0
                  THEN IF e.numeric THEN <<e.amount * 100, totalExpenses>> ELSE NaN
                  ELSE <<0, 1>>]

\* stable insertion by b.amount - a.amount
RECURSIVE InsertDesc(_, _)
InsertDesc(e, sorted) ==
  IF sorted = <<>> THEN <<e>>
  ELSE IF Head(sorted).amount >= e.amount
       THEN <<Head(sorted)>> \o InsertDesc(e, Tail(sorted))
       ELSE <<e>> \o sorted

RECURSIVE SortDesc(_)
SortDesc(entries) ==
  IF entries = <<>> THEN <<>>
  ELSE InsertDesc(entries[Len(entries)], SortDesc(SubSeq(entries, 1, Len(entries) - 1)))

Orderings(entries) ==
  {[i \in 1..Len(entries) |-> entries[f[i]]] :
     f \in {g \in [1..Len(entries) -> 1..Len(entries)] :
              \A i, j \in 1..Len(entries) : i # j => g[i] # g[j]}}

\* .sort((a, b) => b.amount - a.amount): the comparator yields NaN against a
\* string amount and is then not a consistent comparator, for which the
\* language leaves the resulting order to the implementation.
SortOutcomes(entries) ==
  IF \A i \in 1..Len(entries) : entries[i].numeric
  THEN {SortDesc(entries)}
  ELSE Orderings(entries)

\* the results calculateMonthlyInsights can return for the transactions
calculateMonthlyInsights(transactions) ==
  LET acc == Accumulate(transactions,
               [totalExpenses |-> 0, totalIncome |-> 0, categoryTotals |-> <<>>])
      entries == [i \in 1..Len(acc.categoryTotals) |->
                    BreakdownEntry(acc.categoryTotals[i], acc.totalExpenses)]
  IN {[totalExpenses |-> acc.totalExpenses,
       totalIncome |-> acc.totalIncome,
       balance |-> acc.totalIncome - acc.totalExpenses,
       transactionCount |-> Len(transactions),
       categoryBreakdown |-> bd] : bd \in SortOutcomes(entries)}

InitInsights ==
  /\ canSave = [s \in StorageNames |-> FALSE]
  /\ invoiceConfig = FALSE
  /\ results = <<>>
  /\ Fresh
  /\ insTransactions \in SeqsUpTo(SheetTransactions, MaxInsightTxns)
  /\ insights = NoInsights
  /\ insPc = "idle"
  /\ insOptions = NoOptions
  /\ insMessage = <<>>
  /\ MonthlyIdle
  /\ SheetsIdle

Calculate ==
  /\ insPc = "idle"
  /\ insights' \in calculateMonthlyInsights(insTransactions)
  /\ insPc' = "calculated"
  /\ UNCHANGED <<canSave, invoiceConfig, results, mainPc, allTransactions,
                 normalized, derivations, invoiceQueue, invoiceIdx,
                 invoiceRequests, sent, messages, errors, taskPc, message,
                 steps, saveCalls, saveOutcome, stats, taskResult,
                 progressCalls, editTargets, faultVars, insTransactions,
                 insOptions, insMessage, monthlyVars, sheetVars>>

\* the values of maxCategories tried
MaxCategoriesChoices == 0..2

\* the options objects: none at all, or one with both flags and with or
\* without maxCategories
InsightOptions ==
  {NoOptions}
  \cup {[given |-> TRUE, showCategories |-> sc, showDailyAverage |-> sd,
         maxGiven |-> FALSE, maxCategories |-> 0] :
          sc \in BOOLEAN, sd \in BOOLEAN}
  \cup {[given |-> TRUE, showCategories |-> sc, showDailyAverage |-> sd,
         maxGiven |-> TRUE, maxCategories |-> mc] :
          sc \in BOOLEAN, sd \in BOOLEAN, mc \in MaxCategoriesChoices}

DefaultMaxCategories == 5

\* the destructuring defaults of formatInsightsMessage
ShowCategories(o) == IF o.given THEN o.showCategories ELSE TRUE
ShowDailyAverage(o) == IF o.given THEN o.showDailyAverage ELSE TRUE
MaxCategoriesOf(o) ==
  IF o.given /\ o.maxGiven THEN o.maxCategories ELSE DefaultMaxCategories

Min(a, b) == IF a <= b THEN a ELSE b

\* amount.toLocaleString with two fraction digits, for an integer amount
formatCurrency(amount) == [whole |-> amount, cents |-> 0]

\* percentage.toFixed(1) of the fraction <<n, d>>, in tenths; "NaN" for NaN
toFixed1(fraction) ==
  IF fraction[2] = 0 THEN [nan |-> TRUE, tenths |-> 0]
  ELSE [nan |-> FALSE,
        tenths |-> (2 * 10 * fraction[1] + fraction[2]) \div (2 * fraction[2])]

TopCategories_All(breakdown, maxCategories) == breakdown

\* categoryBreakdown.slice(0, maxCategories)
TopCategories(breakdown, maxCategories) ==
  SubSeq(breakdown, 1, Min(maxCategories, Len(breakdown)))

CategoryLine(cat) ==
  [kind |-> "category", category |-> cat.category, numeric |-> cat.numeric,
   amount |-> formatCurrency(cat.amount), suffix |-> cat.suffix,
   percentage |-> toFixed1(cat.percentage)]

\* the lines formatInsightsMessage joins
formatInsightsMessage(ins, o) ==
  <<[kind |-> "title"], [kind |-> "blank"],
    [kind |-> "expenses", amount |-> formatCurrency(ins.totalExpenses)],
    [kind |-> "income", amount |-> formatCurrency(ins.totalIncome)],
    [kind |-> "balance", plus |-> (ins.balance >= 0),
     amount |-> formatCurrency(ins.balance)]>>
  \o (IF ShowDailyAverage(o)
      THEN <<[kind |-> "blank"], [kind |-> "dailyAverage"]>> ELSE <<>>)
  \o (IF ShowCategories(o) /\ Len(ins.categoryBreakdown) > 0
      THEN <<[kind |-> "blank"], [kind |-> "topCategories"]>>
           \o LET top == TopCategories(ins.categoryBreakdown, MaxCategoriesOf(o))
              IN [i \in 1..Len(top) |-> CategoryLine(top[i])]
      ELSE <<>>)

Format(o) ==
  /\ insPc = "calculated"
  /\ insOptions' = o
  /\ insMessage' = formatInsightsMessage(insights, o)
  /\ insPc' = "formatted"
  /\ UNCHANGED <<canSave, invoiceConfig, results, mainPc, allTransactions,
                 normalized, derivations, invoiceQueue, invoiceIdx,
                 invoiceRequests, sent, messages, errors, taskPc, message,
                 steps, saveCalls, saveOutcome, stats, taskResult,
                 progressCalls, editTargets, faultVars, insTransactions,
                 insights, monthlyVars, sheetVars>>

NextInsights ==
  \/ Calculate
  \/ \E o \in InsightOptions : Format(o)

SpecInsights == InitInsights /\ [][NextInsights]_vars

\* the sum of the amounts of the transactions at the indexes I
RECURSIVE SumAmounts(_, _)
SumAmounts(txs, I) ==
  IF I = {} THEN 0
  ELSE LET i == CHOOSE j \in I : TRUE
       IN txs[i].amount + SumAmounts(txs, I \ {i})

ExpenseIndexes(txs) == {i \in 1..Len(txs) : txs[i].amount < 0}

\* C19 -- calculateMonthlyInsights totals: totalExpenses is the sum of
\* |amount| over the transactions with amount < 0, totalIncome the sum of
\* amount over the others, balance their difference and transactionCount
\* the length of the list; all are 0 for the empty list.
C19_Totals ==
  insPc = "calculated" =>
    /\ insights.totalExpenses =
         0 - SumAmounts(insTransactions, ExpenseIndexes(insTransactions))
    /\ insights.totalIncome =
         SumAmounts(insTransactions,
                    (1..Len(insTransactions)) \ ExpenseIndexes(insTransactions))
    /\ insights.balance = insights.totalIncome - insights.totalExpenses
    /\ insights.transactionCount = Len(insTransactions)
    /\ insTransactions = <<>> =>
         /\ insights.totalExpenses = 0 /\ insights.totalIncome = 0
         /\ insights.balance = 0 /\ insights.transactionCount = 0

\* two expenses and one income
C19_Witness ==
  /\ insPc = "calculated"
  /\ Len(insTransactions) = 3
  /\ Cardinality(ExpenseIndexes(insTransactions)) = 2
  /\ insights.totalExpenses = 3
  /\ insights.totalIncome = 1
  /\ insights.balance = -2
  /\ insights.transactionCount = 3

ExpenseCategories(txs) == {CategoryOf(txs[i]) : i \in ExpenseIndexes(txs)}

RECURSIVE SumEntries(_)
SumEntries(entries) ==
  IF entries = <<>> THEN 0 ELSE Head(entries).amount + SumEntries(Tail(entries))

\* C20 -- calculateMonthlyInsights category breakdown: exactly one entry
\* per distinct category among the expenses, an empty category counted as
\* "Uncategorized"; each entry's amount is the sum of |amount| of that
\* category's expenses; income creates no entry; the entries' amounts sum
\* to totalExpenses.
C20_CategoryBreakdown ==
  insPc = "calculated" =>
    LET bd == insights.categoryBreakdown
    IN /\ {bd[i].category : i \in 1..Len(bd)} = ExpenseCategories(insTransactions)
       /\ Len(bd) = Cardinality(ExpenseCategories(insTransactions))
       /\ \A i \in 1..Len(bd) :
            /\ bd[i].numeric
            /\ bd[i].amount =
                 0 - SumAmounts(insTransactions,
                       {j \in ExpenseIndexes(insTransactions) :
                          CategoryOf(insTransactions[j]) = bd[i].category})
       /\ SumEntries(bd) = insights.totalExpenses

\* C21 -- The categoryBreakdown returned by calculateMonthlyInsights is
\* sorted by amount in non-increasing order, for every input order of the
\* transactions: of any two entries that hold numbers the earlier holds the
\* larger or an equal one.
C21_SortedDescending ==
  insPc = "calculated" =>
    LET bd == insights.categoryBreakdown
    IN \A i, j \in 1..Len(bd) :
         (i < j /\ bd[i].numeric /\ bd[j].numeric) => bd[i].amount >= bd[j].amount

LinesOfKind(lines, k) == SelectSeq(lines, LAMBDA l : l.kind = k)

\* C22 -- formatInsightsMessage lists exactly the first min(maxCategories,
\* number of categories) entries of categoryBreakdown, in breakdown order,
\* right under one "Top Categories" header; when showCategories is false or
\* the breakdown is empty it emits neither the header nor a category line.
C22_TopCategories ==
  insPc = "formatted" =>
    LET bd == insights.categoryBreakdown
        show == IF insOptions.given THEN insOptions.showCategories ELSE TRUE
        max == IF insOptions.given /\ insOptions.maxGiven
               THEN insOptions.maxCategories ELSE 5
        n == IF max <= Len(bd) THEN max ELSE Len(bd)
        cats == LinesOfKind(insMessage, "category")
    IN IF show /\ bd # <<>>
       THEN /\ Len(LinesOfKind(insMessage, "topCategories")) = 1
            /\ Len(cats) = n
            /\ \A i \in 1..n : cats[i] = CategoryLine(bd[i])
            /\ \E h \in 1..Len(insMessage) :
                 /\ insMessage[h].kind = "topCategories"
                 /\ Len(insMessage) = h + n
                 /\ \A i \in 1..n : insMessage[h + i] = cats[i]
       ELSE /\ LinesOfKind(insMessage, "topCategories") = <<>>
            /\ cats = <<>>

\* three categories, of which the first two are listed
C22_Witness ==
  /\ insPc = "formatted"
  /\ Len(insights.categoryBreakdown) = 3
  /\ insOptions.given /\ insOptions.showCategories
  /\ insOptions.maxGiven /\ insOptions.maxCategories = 2
  /\ Len(LinesOfKind(insMessage, "category")) = 2
  /\ insMessage[Len(insMessage)].category = insights.categoryBreakdown[2].category

\* C23 -- When a backend's saveTransactions resolves, no progress edit is
\* outstanding and the stats summary is the last update applied to its
\* status message: a finished, successful backend's message shows its stats
\* summary, and a message that shows a stats summary is never changed again.
C23_StatsIsLastUpdate ==
  /\ [](\A s \in Active :
          /\ saveOutcome[s] = "resolved" => taskPc[s] \in {"awaitFinal", "done"}
          /\ (taskPc[s] = "done" /\ saveOutcome[s] = "resolved") =>
               messages[message[s]] = statsString(stats[s], steps[s]))
  /\ [][\A s \in Active :
          (message[s] # 0 /\ messages[message[s]].kind = "stats") =>
            messages'[message[s]] = messages[message[s]]]_vars

\* a backend finished with its stats summary after two progress edits,
\* while the other backend's progress edit is still to be applied
C23_Witness ==
  \E a \in Active : \E b \in Active \ {a} :
    /\ taskPc[a] = "done" /\ saveOutcome[a] = "resolved"
    /\ Len(progressCalls[a]) = 2
    /\ messages[message[a]].kind = "stats"
    /\ taskPc[b] = "awaitEdit"

\* C24 -- Per-backend ordering: the initial "saving" status of a backend is
\* sent and its handle obtained before its saveTransactions is invoked,
\* every progress edit is issued after that send and after the invocation,
\* and the stats-summary edit is issued only after saveTransactions has
\* resolved.
C24_PerBackendOrdering ==
  \A s \in Active :
    /\ saveCalls[s] # <<>> =>
         /\ message[s] \in 1..Len(sent)
         /\ sent[message[s]] = saving(s, <<>>)
    /\ (progressCalls[s] # <<>> \/ editTargets[s] # {}) =>
         /\ saveCalls[s] # <<>>
         /\ message[s] # 0
         /\ editTargets[s] = {message[s]}
    /\ taskPc[s] = "awaitFinal" => saveOutcome[s] = "resolved"
    /\ (message[s] # 0 /\ messages[message[s]].kind = "stats") =>
         saveOutcome[s] = "resolved"
    /\ taskPc[s] \in {"idle", "awaitSend"} =>
         /\ saveCalls[s] = <<>> /\ progressCalls[s] = <<>>
         /\ saveOutcome[s] = "none"

\* the second backend's stats edit is under way after one progress edit
C24_Witness ==
  \E s \in Active :
    /\ message[s] = 2
    /\ taskPc[s] = "awaitFinal"
    /\ Len(progressCalls[s]) = 1
    /\ messages[2].kind = "saving"
    /\ Len(messages[2].steps) = 1

\* The sendError call the catch block of task s issued and did not await
\* settles.
SendErrorSettled(s) ==
  /\ s \in Active
  /\ Len(SaveErrors(s)) >= 1
  /\ s \notin reportsSettled
  /\ reportsSettled' = reportsSettled \cup {s}
  /\ UNCHANGED <<canSave, invoiceConfig, results, mainPc, allTransactions,
                 normalized, derivations, invoiceQueue, invoiceIdx,
                 invoiceRequests, sent, messages, errors, taskPc, message,
                 steps, saveCalls, saveOutcome, stats, taskResult,
                 progressCalls, editTargets, notifierFailed, mutations,
                 invoiceLog, insightVars,
                 monthlyVars, sheetVars>>

NextReports ==
  \/ Next
  \/ \E s \in StorageNames : SendErrorSettled(s)

SpecReports == InitSmall /\ [][NextReports]_vars

\* C25 -- When saveResults returns, the terminal report of every active
\* backend has been delivered: the error-channel call has settled for each
\* backend whose saveTransactions rejected, and the stats-summary edit has
\* been applied for each backend whose saveTransactions resolved.
C25_ReportsDeliveredAtReturn ==
  mainPc = "returned" =>
    \A s \in Active :
      /\ saveOutcome[s] = "rejected" => s \in reportsSettled
      /\ saveOutcome[s] = "resolved" =>
           messages[message[s]] = statsString(stats[s], steps[s])

\* C26 -- An error tagged saveTransactions::<backend name> is reported only
\* for a backend whose saveTransactions call rejected; a backend whose
\* saveTransactions resolved is never reported as failed.
C26_ErrorOnlyForRejectedSave ==
  \A s \in StorageNames :
    /\ Len(SaveErrors(s)) >= 1 => saveOutcome[s] = "rejected"
    /\ saveOutcome[s] = "resolved" => SaveErrors(s) = <<>>

\* C27 -- Invoice creation never prevents the fan-out: with a non-empty
\* active set and at least one transaction, saveResults passes from invoice
\* creation to the fan-out whatever each invoice request answers (no answer
\* blocks it or makes it throw), every active backend's task is started, and
\* saveResults does not return before every active backend's
\* saveTransactions has been invoked.
C27_InvoiceNeverPreventsFanOut ==
  (mainPc # "start" /\ Active # {} /\ normalized # <<>>) =>
    /\ mainPc \in {"invoice", "join", "returned"}
    /\ mainPc = "invoice" =>
         \A res \in InvoiceResponses : ENABLED InvoiceSettled(res)
    /\ mainPc \in {"join", "returned"} =>
         \A s \in Active :
           /\ taskPc[s] # "idle"
           /\ taskPc[s] = "awaitSend" => ENABLED SendSettled(s)
           /\ taskPc[s] # "awaitSend" => Len(saveCalls[s]) = 1
    /\ mainPc = "returned" => \A s \in Active : Len(saveCalls[s]) = 1

\* two invoice requests, the first answered with links and the second
\* failed, and both backends were invoked
C27_Witness ==
  /\ mainPc = "returned"
  /\ invoiceConfig
  /\ invoiceRequests = 2
  /\ Len(allTransactions) = 2
  /\ allTransactions[1].pdf_link = 1
  /\ allTransactions[2].pdf_link = NoLink
  /\ Cardinality(Active) = 2
  /\ \A s \in Active : Len(saveCalls[s]) = 1

\* C28 -- Invoice creation precedes the fan-out: while an invoice request
\* is outstanding no initial status has been sent, no task has started and
\* no saveTransactions has been invoked; once a status has been sent or a
\* task has started, every invoice request of the run has been issued and
\* has settled.
C28_InvoiceBeforeFanOut ==
  /\ mainPc = "invoice" =>
       /\ sent = <<>> /\ messages = <<>>
       /\ \A s \in StorageNames :
            taskPc[s] = "idle" /\ message[s] = 0 /\ saveCalls[s] = <<>>
       /\ invoiceRequests = invoiceIdx
  /\ (sent # <<>> \/ \E s \in StorageNames : taskPc[s] # "idle") =>
       /\ mainPc # "invoice"
       /\ invoiceRequests = Len(invoiceQueue)
       /\ Invoiced = {invoiceQueue[j] : j \in 1..Len(invoiceQueue)}

\* a backend is saving after both invoice requests of the run have settled
C28_Witness ==
  /\ invoiceRequests = 2
  /\ Len(invoiceQueue) = 2
  /\ \E s \in Active : taskPc[s] = "saving" /\ Len(saveCalls[s]) = 1

\* C29 -- createInvoicesForTransactions isolates per-transaction failures:
\* it issues one request per input transaction, one at a time and in input
\* order, goes on with the next transaction after a failed request, never
\* rejects because a request failed, and leaves the transactions and their
\* order as they were; a transaction whose request failed gains no pdf_link
\* and no doc_number.
C29_InvoiceFailuresIsolated ==
  /\ Len(invoiceLog) <= Len(invoiceQueue)
  /\ \A j \in 1..Len(invoiceLog) : invoiceLog[j].index = invoiceQueue[j]
  /\ invoiceRequests = Len(invoiceLog) + (IF mainPc = "invoice" THEN 1 ELSE 0)
  /\ mainPc = "invoice" => invoiceIdx = Len(invoiceLog) + 1
  /\ mainPc \in {"join", "returned"} =>
       /\ Len(invoiceLog) = Len(invoiceQueue)
       /\ invoiceConfig => invoiceQueue = filterInsuranceVendorTransactions(normalized)
  /\ mainPc # "threw"
  /\ CanonicalSeq(allTransactions) = CanonicalSeq(normalized)
  /\ \A j \in 1..Len(invoiceLog) :
       invoiceLog[j].res = "failed" =>
         /\ allTransactions[invoiceLog[j].index].pdf_link = NoLink
         /\ allTransactions[invoiceLog[j].index].doc_number = NoLink

\* the first request failed, the second was made all the same and brought
\* links
C29_Witness ==
  /\ mainPc = "join"
  /\ Len(invoiceLog) = 2
  /\ invoiceLog[1].res = "failed"
  /\ invoiceLog[2].res = "links"
  /\ allTransactions[invoiceLog[1].index].pdf_link = NoLink
  /\ allTransactions[invoiceLog[2].index].pdf_link = 1

\* ---------------------------------------------------------------------
\* resultsToTransactions on its own, over successful results of two
\* institutions with up to MaxGroupAccounts account batches of up to
\* MaxGroupTxns well-formed transactions each.
\* ---------------------------------------------------------------------

MaxGroupAccounts == 2
MaxGroupTxns == 2

GroupCompanyIds == {"hapoalim", "leumi"}
GroupAccountNumbers == {"acc1", "acc2"}
GroupTxns == {tx \in RawTxns : ~Malformed(tx)}

GroupAccounts ==
  [accountNumber : GroupAccountNumbers, txns : SeqsUpTo(GroupTxns, MaxGroupTxns)]

GroupResults ==
  [companyId : GroupCompanyIds, success : {TRUE},
   accounts : SeqsUpTo(GroupAccounts, MaxGroupAccounts)]

InitGrouping ==
  /\ canSave = [s \in StorageNames |-> FALSE]
  /\ invoiceConfig = FALSE
  /\ results \in SeqsUpTo(GroupResults, MaxResults)
  /\ Fresh
  /\ InsightsIdle
  /\ MonthlyIdle
  /\ SheetsIdle

\* const allTransactions = resultsToTransactions(results)
Normalize ==
  /\ mainPc = "start"
  /\ LET r == resultsToTransactions(results)
     IN /\ allTransactions' = r.rows
        /\ normalized' = r.rows
        /\ derivations' = r.calls
        /\ errors' = errors \o r.errs
  /\ mainPc' = "normalized"
  /\ UNCHANGED <<canSave, invoiceConfig, results, invoiceQueue, invoiceIdx,
                 invoiceRequests, sent, messages, taskPc, message, steps,
                 saveCalls, saveOutcome, stats, taskResult, progressCalls,
                 editTargets, faultVars, insightVars,
                 monthlyVars, sheetVars>>

NextGrouping == Normalize

SpecGrouping == InitGrouping /\ [][NextGrouping]_vars

\* the places <<result, account batch, transaction>> of the well-formed
\* transactions of the successful results
Positions(rs) ==
  UNION {UNION {{<<r, a, t>> :
                   t \in {u \in 1..Len(rs[r].accounts[a].txns) :
                            ~Malformed(rs[r].accounts[a].txns[u])}} :
                a \in 1..Len(rs[r].accounts)} :
         r \in {q \in 1..Len(rs) : rs[q].success}}

Before(p, q) ==
  \/ p[1] < q[1]
  \/ p[1] = q[1] /\ p[2] < q[2]
  \/ p[1] = q[1] /\ p[2] = q[2] /\ p[3] < q[3]

Rank(p, rs) == Cardinality({q \in Positions(rs) : Before(q, p)}) + 1

\* C30 -- resultsToTransactions preserves order and grouping: the rows
\* stand in the input order, by result, then account batch, then
\* transaction, and each row carries the companyId of its result and the
\* accountNumber of its batch, so the rows of one batch are contiguous.
C30_OrderAndGrouping ==
  mainPc = "normalized" =>
    /\ Len(normalized) = Cardinality(Positions(results))
    /\ \A p \in Positions(results) :
         LET row == normalized[Rank(p, results)]
             tx == results[p[1]].accounts[p[2]].txns[p[3]]
         IN /\ row.companyId = results[p[1]].companyId
            /\ row.account = results[p[1]].accounts[p[2]].accountNumber
            /\ row.date = tx.date
            /\ row.description = tx.description
            /\ row.originalAmount = tx.originalAmount

\* two institutions; the first has a batch of two different transactions
\* followed by a batch of another account
C30_Witness ==
  /\ mainPc = "normalized"
  /\ Len(results) = 2
  /\ results[1].success /\ results[2].success
  /\ results[1].companyId # results[2].companyId
  /\ Len(normalized) = 4
  /\ normalized[1].account = normalized[2].account
  /\ normalized[1].description # normalized[2].description
  /\ normalized[3].account # normalized[2].account
  /\ normalized[3].companyId = normalized[2].companyId
  /\ normalized[4].companyId # normalized[3].companyId

\* ------------------------------------ GoogleSheetsStorage.saveTransactions
MaxSheetTxns == 2

\* the transactions the rows are made of
SheetIds == {1, 2}

\* the calls of saveTransactions made on one worksheet
Calls == {1, 2}

\* tx.hash and tx.uniqueId of the transaction i
HashOf(i) == <<"hash", i>>

UniqueIdOf(i) == <<"uniqueId", i>>

SheetKeys == {HashOf(i) : i \in SheetIds} \cup {UniqueIdOf(i) : i \in SheetIds}

\* the TransactionRows passed to saveTransactions
SheetRows ==
  {[hash |-> HashOf(i), uniqueId |-> UniqueIdOf(i), status |-> st] :
     i \in SheetIds, st \in {"completed", "pending"}}

\* the variables of saveResults and of its tasks
saveResultsVars ==
  <<canSave, invoiceConfig, results, mainPc, allTransactions, normalized,
    derivations, invoiceQueue, invoiceIdx, invoiceRequests, sent, messages,
    errors, taskPc, message, steps, saveCalls, saveOutcome, stats, taskResult,
    progressCalls, editTargets>>

\* what saveTransactions leaves alone
outsideSheets == <<saveResultsVars, faultVars, insightVars, monthlyVars>>

InitSheets ==
  /\ canSave = [s \in StorageNames |-> FALSE]
  /\ invoiceConfig = FALSE
  /\ results = <<>>
  /\ Fresh
  /\ InsightsIdle
  /\ MonthlyIdle
  /\ hashType \in {"moneyman", ""}
  /\ sheetTxns \in SeqsUpTo(SheetRows, MaxSheetTxns)
  /\ worksheet \in {"ok", "missing", "noHashColumn"}
  /\ hashColumn \in SUBSET SheetKeys
  /\ SheetsFresh
  /\ sheetCall = 1
  /\ firstCall = NoCall

\* the key tableRow(tx, hasRawColumn) puts in the hash column of the row
tableRow(tx, type) == IF type = "moneyman" THEN tx.uniqueId ELSE tx.hash

FilterTxn_KeepsPending(tx, type, existing) ==
  IF type = "moneyman" /\ tx.uniqueId \in existing
  THEN [keep |-> FALSE, existing |-> 1]
  ELSE IF tx.hash \in existing
       THEN [keep |-> FALSE,
             existing |-> IF tx.uniqueId \notin existing THEN 1 ELSE 0]
       ELSE [keep |-> TRUE, existing |-> 0]

\* the callback of txns.filter: whether tx is kept, and what the callback
\* adds to stats.existing
FilterTxn(tx, type, existing) ==
  IF type = "moneyman" /\ tx.uniqueId \in existing
  THEN [keep |-> FALSE, existing |-> 1]
  ELSE IF tx.hash \in existing
       THEN [keep |-> FALSE,
             existing |-> IF tx.uniqueId \notin existing THEN 1 ELSE 0]
       ELSE [keep |-> tx.status # "pending", existing |-> 0]

\* const newTxns = txns.filter(...), with the stats.existing it leaves
RECURSIVE FilterTxns(_, _, _)
FilterTxns(txs, type, existing) ==
  IF txs = <<>>
  THEN [newTxns |-> <<>>, existing |-> 0]
  ELSE LET f == FilterTxn(Head(txs), type, existing)
           rest == FilterTxns(Tail(txs), type, existing)
       IN [newTxns |-> IF f.keep THEN <<Head(txs)>> \o rest.newTxns
                       ELSE rest.newTxns,
           existing |-> f.existing + rest.existing]

\* newTxns.filter(({hash, uniqueId}) => !hashes.has(hash) && !hashes.has(uniqueId))
RECURSIVE NotSaved(_, _)
NotSaved(txs, hashes) ==
  IF txs = <<>>
  THEN <<>>
  ELSE IF Head(txs).hash \notin hashes /\ Head(txs).uniqueId \notin hashes
       THEN <<Head(txs)>> \o NotSaved(Tail(txs), hashes)
       ELSE NotSaved(Tail(txs), hashes)

\* the requests of R are issued
Issued(R) == [r \in SheetRequests |-> IF r \in R THEN "pending" ELSE sheetIo[r]]

Settled_RequestsOnly(R) ==
  \A r \in R \ {"onProgress"} : sheetIo[r] \in {"ok", "failed"}

\* every request of R has settled
Settled(R) == \A r \in R : sheetIo[r] \in {"ok", "failed"}

\* onProgress(status) is called
Called(status) ==
  Append(progressLog,
         [status |-> status,
          unsettled |-> sheetIo["onProgress"] = "pending",
          settled |-> sheetOutcome # "none"])

\* the promise of saveTransactions settles
Resolved ==
  /\ sheetPc' = "done"
  /\ sheetOutcome' = "resolved"

Rejected ==
  /\ sheetPc' = "done"
  /\ sheetOutcome' = "rejected"

\* Promise.all([this.getDoc(), onProgress("Getting doc")])
SaveTransactions ==
  /\ sheetPc = "entry"
  /\ sheetPc' = "getDoc"
  /\ sheetIo' = Issued({"getDoc", "onProgress"})
  /\ progressLog' = Called("Getting doc")
  /\ UNCHANGED <<hashType, sheetTxns, worksheet, hashColumn, existingHashes,
                 newTxns, sheetStats, rowsWritten, sheetOutcome, sheetReports,
                 sheetCall, firstCall, outsideSheets>>

\* a request settles; sheet.addRows appends the rows in one request, which
\* has taken effect when it resolves and may or may not have when it rejects
RequestSettled(r, res, k) ==
  /\ sheetIo[r] = "pending"
  /\ sheetIo' = [sheetIo EXCEPT ![r] = res]
  /\ IF r = "addRows"
     THEN /\ k \in {0, Len(newTxns)}
          /\ res = "ok" => k = Len(newTxns)
          /\ rowsWritten' = SubSeq(newTxns, 1, k)
          /\ hashColumn' =
               hashColumn \cup {tableRow(newTxns[i], hashType) : i \in 1..k}
     ELSE /\ k = 0
          /\ UNCHANGED <<rowsWritten, hashColumn>>
  /\ UNCHANGED <<hashType, sheetTxns, worksheet, sheetPc, progressLog,
                 existingHashes, newTxns, sheetStats, sheetOutcome,
                 sheetReports, sheetCall, firstCall, outsideSheets>>

\* await onProgress(`Getting sheet ...`), once getDoc and the first step have
\* resolved; Promise.all rejects as soon as one of them rejects
AfterGetDoc ==
  /\ sheetPc = "getDoc"
  /\ \/ /\ \E r \in {"getDoc", "onProgress"} : sheetIo[r] = "failed"
        /\ Rejected
        /\ UNCHANGED <<sheetIo, progressLog>>
     \/ /\ \A r \in {"getDoc", "onProgress"} : sheetIo[r] = "ok"
        /\ sheetPc' = "getSheet"
        /\ sheetIo' = Issued({"onProgress"})
        /\ progressLog' = Called("Getting sheet")
        /\ UNCHANGED sheetOutcome
  /\ UNCHANGED <<hashType, sheetTxns, worksheet, hashColumn, existingHashes,
                 newTxns, sheetStats, rowsWritten, sheetReports, sheetCall,
                 firstCall, outsideSheets>>

AfterGettingSheet_NoAssert ==
  /\ sheetPc = "getSheet"
  /\ Settled({"onProgress"})
  /\ IF sheetIo["onProgress"] = "failed"
     THEN /\ Rejected
          /\ UNCHANGED <<sheetIo, progressLog>>
     ELSE /\ sheetPc' = "loadHeaderRow"
          /\ sheetIo' = Issued({"loadHeaderRow", "onProgress"})
          /\ progressLog' = Called("Loading header row")
          /\ UNCHANGED sheetOutcome
  /\ UNCHANGED <<hashType, sheetTxns, worksheet, hashColumn, existingHashes,
                 newTxns, sheetStats, rowsWritten, sheetReports, sheetCall,
                 firstCall, outsideSheets>>

\* assert(sheet, ...); Promise.allSettled([sheet.loadHeaderRow(), onProgress(...)])
AfterGettingSheet ==
  /\ sheetPc = "getSheet"
  /\ Settled({"onProgress"})
  /\ IF sheetIo["onProgress"] = "failed" \/ worksheet = "missing"
     THEN /\ Rejected
          /\ UNCHANGED <<sheetIo, progressLog>>
     ELSE /\ sheetPc' = "loadHeaderRow"
          /\ sheetIo' = Issued({"loadHeaderRow", "onProgress"})
          /\ progressLog' = Called("Loading header row")
          /\ UNCHANGED sheetOutcome
  /\ UNCHANGED <<hashType, sheetTxns, worksheet, hashColumn, existingHashes,
                 newTxns, sheetStats, rowsWritten, sheetReports, sheetCall,
                 firstCall, outsideSheets>>

\* the header row has settled: report its failure, or enter loadHashes, whose
\* asserts need the hash column
AfterLoadHeaderRow ==
  /\ sheetPc = "loadHeaderRow"
  /\ Settled({"loadHeaderRow", "onProgress"})
  /\ IF sheetIo["loadHeaderRow"] = "failed"
     THEN /\ sheetReports' =
               Append(sheetReports, "GoogleSheetsStorage::loadHeaderRow")
          /\ sheetPc' = "headerFailed"
          /\ sheetIo' = Issued({"onProgress"})
          /\ progressLog' = Called("Loading header row failed")
          /\ UNCHANGED sheetOutcome
     ELSE IF worksheet = "noHashColumn"
          THEN /\ Rejected
               /\ UNCHANGED <<sheetIo, progressLog, sheetReports>>
          ELSE /\ sheetPc' = "loadHashes"
               /\ sheetIo' = Issued({"loadHashes", "onProgress"})
               /\ progressLog' = Called("Loading hashes")
               /\ UNCHANGED <<sheetOutcome, sheetReports>>
  /\ UNCHANGED <<hashType, sheetTxns, worksheet, hashColumn, existingHashes,
                 newTxns, sheetStats, rowsWritten, sheetCall, firstCall,
                 outsideSheets>>

\* throw new Error(`Failed to load header row: ...`)
AfterHeaderFailed ==
  /\ sheetPc = "headerFailed"
  /\ Settled({"onProgress"})
  /\ Rejected
  /\ UNCHANGED <<hashType, sheetTxns, worksheet, hashColumn, sheetIo,
                 progressLog, existingHashes, newTxns, sheetStats, rowsWritten,
                 sheetReports, sheetCall, firstCall, outsideSheets>>

\* the hash column has settled: loadHashes reports its failure, or returns
\* the set; the filter runs, and the rows it kept are sent to sheet.addRows
AfterLoadHashes ==
  /\ sheetPc = "loadHashes"
  /\ Settled({"loadHashes", "onProgress"})
  /\ IF sheetIo["loadHashes"] = "failed"
     THEN /\ sheetPc' = "hashesFailed"
          /\ sheetIo' = Issued({"onProgress"})
          /\ progressLog' = Called("Loading hashes failed")
          /\ UNCHANGED <<existingHashes, newTxns, sheetStats, sheetOutcome>>
     ELSE LET f == FilterTxns(sheetTxns, hashType, hashColumn)
          IN /\ existingHashes' = hashColumn
             /\ newTxns' = f.newTxns
             /\ IF f.newTxns = <<>>
                THEN /\ sheetStats' =
                          [createSaveStats EXCEPT !.existing = f.existing]
                     /\ Resolved
                     /\ UNCHANGED <<sheetIo, progressLog>>
                ELSE /\ sheetStats' =
                          [createSaveStats EXCEPT !.existing = f.existing,
                                                  !.Added = f.newTxns,
                                                  !.added = Len(f.newTxns)]
                     /\ sheetPc' = "addRows"
                     /\ sheetIo' = Issued({"addRows", "onProgress"})
                     /\ progressLog' = Called("Saving rows")
                     /\ UNCHANGED sheetOutcome
  /\ UNCHANGED <<hashType, sheetTxns, worksheet, hashColumn, rowsWritten,
                 sheetReports, sheetCall, firstCall, outsideSheets>>

\* throw new Error(`Loading hashes failed: ...`) out of the first loadHashes
AfterHashesFailed ==
  /\ sheetPc = "hashesFailed"
  /\ Settled({"onProgress"})
  /\ Rejected
  /\ UNCHANGED <<hashType, sheetTxns, worksheet, hashColumn, sheetIo,
                 progressLog, existingHashes, newTxns, sheetStats, rowsWritten,
                 sheetReports, sheetCall, firstCall, outsideSheets>>

\* the notifier calls saveTransactions makes without awaiting them once
\* addRows has settled
AddRowsReports ==
  (IF hashType # "moneyman" THEN <<"hashFiledChange">> ELSE <<>>)
    \o (IF sheetIo["addRows"] = "failed"
        THEN <<"GoogleSheetsStorage::saveTransactions">> ELSE <<>>)

\* addRows has settled: return stats, or start recovering them
AfterAddRows ==
  /\ sheetPc = "addRows"
  /\ Settled({"addRows", "onProgress"})
  /\ sheetReports' = sheetReports \o AddRowsReports
  /\ IF sheetIo["addRows"] = "ok"
     THEN /\ Resolved
          /\ UNCHANGED <<sheetIo, progressLog>>
     ELSE /\ sheetPc' = "recovering"
          /\ sheetIo' = Issued({"onProgress"})
          /\ progressLog' = Called("recovering stats after saving failed")
          /\ UNCHANGED sheetOutcome
  /\ UNCHANGED <<hashType, sheetTxns, worksheet, hashColumn, existingHashes,
                 newTxns, sheetStats, rowsWritten, sheetCall, firstCall,
                 outsideSheets>>

\* try { const hashes = await this.loadHashes(sheet, onProgress)
AfterRecovering ==
  /\ sheetPc = "recovering"
  /\ Settled({"onProgress"})
  /\ IF sheetIo["onProgress"] = "failed"
     THEN /\ Rejected
          /\ UNCHANGED <<sheetIo, progressLog>>
     ELSE /\ sheetPc' = "reloadHashes"
          /\ sheetIo' = Issued({"reloadHashes", "onProgress"})
          /\ progressLog' = Called("Loading hashes")
          /\ UNCHANGED sheetOutcome
  /\ UNCHANGED <<hashType, sheetTxns, worksheet, hashColumn, existingHashes,
                 newTxns, sheetStats, rowsWritten, sheetReports, sheetCall,
                 firstCall, outsideSheets>>

\* the hash column read again has settled: loadHashes reports its failure,
\* or stats.added and stats.otherSkipped are set from notSaved
AfterReloadHashes ==
  /\ sheetPc = "reloadHashes"
  /\ Settled({"reloadHashes", "onProgress"})
  /\ IF sheetIo["reloadHashes"] = "failed"
     THEN /\ sheetPc' = "reloadFailed"
          /\ sheetIo' = Issued({"onProgress"})
          /\ progressLog' = Called("Loading hashes failed")
          /\ UNCHANGED <<sheetStats, sheetOutcome>>
     ELSE LET notSaved == NotSaved(newTxns, hashColumn)
          IN /\ sheetStats' =
                  [sheetStats EXCEPT !.added = @ - Len(notSaved),
                                     !.otherSkipped = Len(notSaved)]
             /\ Resolved
             /\ UNCHANGED <<sheetIo, progressLog>>
  /\ UNCHANGED <<hashType, sheetTxns, worksheet, hashColumn, existingHashes,
                 newTxns, rowsWritten, sheetReports, sheetCall, firstCall,
                 outsideSheets>>

\* catch (e) { sendError(e, "GoogleSheetsStorage::saveTransactions") }
AfterReloadFailed ==
  /\ sheetPc = "reloadFailed"
  /\ Settled({"onProgress"})
  /\ sheetReports' =
       Append(sheetReports, "GoogleSheetsStorage::saveTransactions")
  /\ Resolved
  /\ UNCHANGED <<hashType, sheetTxns, worksheet, hashColumn, sheetIo,
                 progressLog, existingHashes, newTxns, sheetStats, rowsWritten,
                 sheetCall, firstCall, outsideSheets>>

\* saveTransactions is called again with the same transactions, on the
\* worksheet as the call before left it
CallAgain ==
  /\ sheetPc = "done"
  /\ sheetOutcome = "resolved"
  /\ sheetCall + 1 \in Calls
  /\ Settled({r \in SheetRequests : sheetIo[r] # "none"})
  /\ sheetCall' = sheetCall + 1
  /\ firstCall' = [made |-> TRUE, io |-> sheetIo, newTxns |-> newTxns,
                   rowsWritten |-> rowsWritten, stats |-> sheetStats]
  /\ sheetPc' = "entry"
  /\ sheetIo' = [r \in SheetRequests |-> "none"]
  /\ progressLog' = <<>>
  /\ existingHashes' = {}
  /\ newTxns' = <<>>
  /\ sheetStats' = createSaveStats
  /\ rowsWritten' = <<>>
  /\ sheetOutcome' = "none"
  /\ sheetReports' = <<>>
  /\ UNCHANGED <<hashType, sheetTxns, worksheet, hashColumn, outsideSheets>>

NextSheets ==
  \/ SaveTransactions
  \/ \E r \in SheetRequests, res \in {"ok", "failed"}, k \in 0..MaxSheetTxns :
       RequestSettled(r, res, k)
  \/ AfterGetDoc
  \/ AfterGettingSheet
  \/ AfterLoadHeaderRow
  \/ AfterHeaderFailed
  \/ AfterLoadHashes
  \/ AfterHashesFailed
  \/ AfterAddRows
  \/ AfterRecovering
  \/ AfterReloadHashes
  \/ AfterReloadFailed
  \/ CallAgain

SpecSheets == InitSheets /\ [][NextSheets]_vars

\* ------------------------------------------------------------------ C31
\* C31: every row saveTransactions appends belongs to a transaction whose
\* hash is not in the hash column as loadHashes returned it before the
\* filter, whose uniqueId is not in it either when the hash type is
\* "moneyman", and whose status is not Pending.
C31_NeverWritesExistingOrPending ==
  \A i \in 1..Len(rowsWritten) :
    /\ rowsWritten[i].hash \notin existingHashes
    /\ hashType = "moneyman" => rowsWritten[i].uniqueId \notin existingHashes
    /\ rowsWritten[i].status # "pending"

\* a save in "moneyman" mode has appended one row and left out a pending
\* transaction and one whose uniqueId the column held
C31_Witness ==
  /\ hashType = "moneyman"
  /\ Len(rowsWritten) = 1
  /\ Len(sheetTxns) = 2
  /\ \E i \in 1..2 : /\ sheetTxns[i] # rowsWritten[1]
                     /\ \/ sheetTxns[i].status = "pending"
                        \/ sheetTxns[i].uniqueId \in existingHashes
  /\ existingHashes # {}

\* ------------------------------------------------------------------ C33
\* the input transactions the filter leaves out because the hash column
\* holds their hash, or their uniqueId in "moneyman" mode
SkippedAsExisting ==
  {i \in 1..Len(sheetTxns) :
     \/ sheetTxns[i].hash \in existingHashes
     \/ hashType = "moneyman" /\ sheetTxns[i].uniqueId \in existingHashes}

\* C33: when saveTransactions resolves, stats.existing is the number of input
\* transactions skipped because their hash or uniqueId was already in the
\* sheet: each of them has added exactly one, in both hash modes.
C33_ExistingCountsEverySkip ==
  sheetOutcome = "resolved" =>
    sheetStats.existing = Cardinality(SkippedAsExisting)

\* ------------------------------------------------------------------ C32
\* the call before resolved and none of its requests to the sheet failed
FirstCallSucceeded ==
  /\ firstCall.made
  /\ \A r \in SheetRequests \ {"onProgress"} : firstCall.io[r] # "failed"

\* C32: when saveTransactions is called a second time with the same
\* transactions and configuration after a fully successful first call, on a
\* sheet that kept the rows, the second call appends no row, resolves with
\* added = 0, and counts as existing every transaction the first call wrote.
C32_SecondSaveIsIdempotent ==
  (sheetCall = 2 /\ FirstCallSucceeded) =>
    /\ rowsWritten = <<>>
    /\ sheetOutcome = "resolved" =>
         /\ sheetStats.added = 0
         /\ sheetStats.existing >= Len(firstCall.rowsWritten)

\* ------------------------------------------------------------------ C34
\* C34: when sheet.addRows rejects, saveTransactions still resolves with its
\* stats, and in them added counts no transaction whose row is missing from
\* the sheet: it is the number of attempted transactions found in the hash
\* column read again, and added + otherSkipped is the number of rows
\* attempted.
C34_StatsRecoveredAfterFailedAddRows ==
  (sheetIo["addRows"] = "failed" /\ sheetPc = "done") =>
    /\ sheetOutcome = "resolved"
    /\ sheetStats.added <= Len(rowsWritten)
    /\ sheetStats.added = Len(newTxns) - Len(NotSaved(newTxns, hashColumn))
    /\ sheetStats.added + sheetStats.otherSkipped = Len(newTxns)

\* ------------------------------------------------------------------ C35
\* C35: when saveTransactions resolves, highlightedTransactions.Added holds
\* exactly stats.added transactions, and they are the transactions whose rows
\* the call appended, also when sheet.addRows rejected.
C35_AddedListMatchesWritten ==
  sheetOutcome = "resolved" =>
    /\ Len(sheetStats.Added) = sheetStats.added
    /\ sheetStats.Added = rowsWritten

\* ------------------------------------------------------------------ C36
\* the call cannot get to its filter: the worksheet is missing, or the header
\* row or the first read of the hash column failed
CannotReadSheet ==
  \/ worksheet = "missing"
  \/ sheetIo["loadHeaderRow"] = "failed"
  \/ sheetIo["loadHashes"] = "failed"

\* C36: when the worksheet is missing, or loading the header row fails, or
\* the first load of the hash column fails, saveTransactions never resolves:
\* it settles by rejecting, and the call has appended no row and has sent
\* none to sheet.addRows.
C36_RejectsBeforeAnyWrite ==
  CannotReadSheet =>
    /\ sheetOutcome # "resolved"
    /\ sheetPc = "done" => sheetOutcome = "rejected"
    /\ worksheet = "missing" => sheetIo["loadHeaderRow"] = "none"
    /\ sheetIo["loadHeaderRow"] = "failed" => sheetIo["loadHashes"] = "none"
    /\ sheetIo["addRows"] = "none"
    /\ rowsWritten = <<>>

\* a call given transactions has rejected after the first read of the hash
\* column failed
C36_Witness ==
  /\ sheetIo["loadHashes"] = "failed"
  /\ sheetOutcome = "rejected"
  /\ sheetTxns # <<>>

\* ------------------------------------------------------------------ C37
\* C37: the progress steps of one save are strictly sequential: no call of
\* onProgress is made while an earlier call of the same save is unsettled,
\* and none is made after saveTransactions has settled.
C37_ProgressStepsSequential ==
  \A i \in 1..Len(progressLog) :
    /\ ~progressLog[i].unsettled
    /\ ~progressLog[i].settled

\* a save has resolved after going through every progress step of the
\* recovery, the failed second read of the hash column included
C37_Witness ==
  /\ sheetOutcome = "resolved"
  /\ Len(progressLog) = 8
  /\ progressLog[8].status = "Loading hashes failed"

\* ------------------------------------------------------ sendMonthlyInsights
\* what sendMonthlyInsights leaves alone
outsideInsights == <<saveResultsVars, faultVars, sheetVars>>

\* config.options.notifications.insights and config.storage.googleSheets;
\* the options object built from insightsConfig is always given
InitMonthly ==
  /\ canSave = [s \in StorageNames |-> FALSE]
  /\ invoiceConfig = FALSE
  /\ results = <<>>
  /\ Fresh
  /\ SheetsIdle
  /\ insConfig \in [enabled : BOOLEAN, googleSheets : BOOLEAN]
  /\ insOptions \in {o \in InsightOptions : o.given}
  /\ insTransactions = <<>>
  /\ insights = NoInsights
  /\ insMessage = <<>>
  /\ insPc = "entry"
  /\ insSent = <<>>
  /\ insReports = <<>>
  /\ insOutcome = "none"
  /\ insFailed = "none"

\* the two early exits, or the call of getTransactionsForMonth
SendMonthlyInsights ==
  /\ insPc = "entry"
  /\ IF ~insConfig.enabled
     THEN /\ insPc' = "returned"
          /\ insOutcome' = "resolved"
          /\ UNCHANGED insReports
     ELSE IF ~insConfig.googleSheets
          THEN /\ insReports' = Append(insReports, "sendMonthlyInsights")
               /\ insPc' = "reporting"
               /\ UNCHANGED insOutcome
          ELSE /\ insPc' = "loading"
               /\ UNCHANGED <<insReports, insOutcome>>
  /\ UNCHANGED <<insTransactions, insights, insOptions, insMessage, insConfig,
                 insSent, insFailed, outsideInsights>>

\* getTransactionsForMonth has settled: the catch block reports its failure;
\* an empty month returns; otherwise the insights are calculated, formatted
\* and passed to send
TransactionsLoaded(res) ==
  /\ insPc = "loading"
  /\ IF res = "failed"
     THEN /\ insFailed' = "load"
          /\ insReports' = Append(insReports, "sendMonthlyInsights")
          /\ insPc' = "reporting"
          /\ UNCHANGED <<insTransactions, insights, insMessage, insSent,
                         insOutcome>>
     ELSE \E txs \in SeqsUpTo(SheetTransactions, MaxInsightTxns) :
            IF txs = <<>>
            THEN /\ insPc' = "returned"
                 /\ insOutcome' = "resolved"
                 /\ UNCHANGED <<insTransactions, insights, insMessage,
                                insSent, insReports, insFailed>>
            ELSE /\ insTransactions' = txs
                 /\ insights' \in calculateMonthlyInsights(txs)
                 /\ insMessage' = formatInsightsMessage(insights', insOptions)
                 /\ insSent' = Append(insSent, insMessage')
                 /\ insPc' = "sending"
                 /\ UNCHANGED <<insReports, insOutcome, insFailed>>
  /\ UNCHANGED <<insOptions, insConfig, outsideInsights>>

MessageSettled_Rethrows(res) ==
  /\ insPc = "sending"
  /\ insPc' = "returned"
  /\ IF res = "failed"
     THEN /\ insFailed' = "send"
          /\ insOutcome' = "rejected"
     ELSE /\ insOutcome' = "resolved"
          /\ UNCHANGED insFailed
  /\ UNCHANGED <<insTransactions, insights, insOptions, insMessage, insConfig,
                 insSent, insReports, outsideInsights>>

\* await send(message, "HTML") has settled: return, or report in the catch
\* block
MessageSettled(res) ==
  /\ insPc = "sending"
  /\ IF res = "failed"
     THEN /\ insFailed' = "send"
          /\ insReports' = Append(insReports, "sendMonthlyInsights")
          /\ insPc' = "reporting"
          /\ UNCHANGED insOutcome
     ELSE /\ insPc' = "returned"
          /\ insOutcome' = "resolved"
          /\ UNCHANGED <<insReports, insFailed>>
  /\ UNCHANGED <<insTransactions, insights, insOptions, insMessage, insConfig,
                 insSent, outsideInsights>>

\* await sendError(...) has resolved, and the function returns
ErrorReported ==
  /\ insPc = "reporting"
  /\ insPc' = "returned"
  /\ insOutcome' = "resolved"
  /\ UNCHANGED <<insTransactions, insights, insOptions, insMessage, insConfig,
                 insSent, insReports, insFailed, outsideInsights>>

NextMonthly ==
  \/ SendMonthlyInsights
  \/ \E res \in {"ok", "failed"} : TransactionsLoaded(res)
  \/ \E res \in {"ok", "failed"} : MessageSettled(res)
  \/ ErrorReported

SpecMonthly == InitMonthly /\ [][NextMonthly]_vars

\* ------------------------------------------------------------------ C38
\* C38: sendMonthlyInsights passes at most one message to send, and only
\* when insights are enabled, Google Sheets is configured and the month has
\* a transaction; disabled, it sends and reports nothing; without Google
\* Sheets it reports exactly one error and sends nothing; a failed load or
\* send is reported once through sendError, and the promise never rejects.
C38_InsightsSentOnlyWhenConfigured ==
  /\ Len(insSent) <= 1
  /\ insSent # <<>> =>
       /\ insConfig.enabled
       /\ insConfig.googleSheets
       /\ Len(insTransactions) >= 1
       /\ insSent[1] = insMessage
  /\ ~insConfig.enabled => insSent = <<>> /\ insReports = <<>>
  /\ (insConfig.enabled /\ ~insConfig.googleSheets) =>
       /\ insSent = <<>>
       /\ Len(insReports) = IF insPc = "entry" THEN 0 ELSE 1
  /\ (insConfig.enabled /\ insConfig.googleSheets) =>
       Len(insReports) = IF insFailed = "none" THEN 0 ELSE 1
  /\ \A i \in 1..Len(insReports) : insReports[i] = "sendMonthlyInsights"
  /\ insOutcome # "rejected"
  /\ insPc = "returned" => insOutcome = "resolved"

\* the message was passed to send, send rejected, the failure was reported
\* and sendMonthlyInsights has returned
C38_Witness ==
  /\ insFailed = "send"
  /\ Len(insSent) = 1
  /\ insReports = <<"sendMonthlyInsights">>
  /\ insPc = "returned"
  /\ insOutcome = "resolved"

====
